---- MODULE Spec2Model ----
(***************************************************************************)
(* A model of the scoring and ranking engine of the TikTok recommendation  *)
(* engine: ViralityScorer, RelevanceScorer, AffinityScorer and FinalRanker *)
(* (src/stages/scoring).                                                   *)
(*                                                                         *)
(* Numbers.  Python floats are modelled as exact rationals <<n, d>> in     *)
(* lowest terms with d > 0; every arithmetic step of the code is carried   *)
(* out on them in the order the code carries it out.                       *)
(*                                                                         *)
(* Records.  A Python dict is a TLA+ function whose domain is the set of   *)
(* keys that are present; d.get(k, default) is Get(d, k, default).         *)
(*                                                                         *)
(* Text.  A Python str is a sequence of one-character strings, so that     *)
(* lower(), split('_'), join and the substring test `in` are computed.     *)
(***************************************************************************)
EXTENDS Integers, Sequences, FiniteSets, TLC

VARIABLES
    op,               \* the call most recently made ("none" before any call)
    video,            \* the video dict given to a score_single call
    user_tags,        \* the user tag list given to the relevance scorer / ranker
    embedding,        \* what the embedding provider answers during the call
    result,           \* the value returned by a call of a single method
    parts,            \* the sub-scores computed inside the call
    tag_mappings,     \* AffinityScorer.score: the initial tag mappings
    user_data,        \* AffinityScorer.score: the user profile data
    content,          \* AffinityScorer.score: [posts, reposts, liked_posts]
    scored_tags,      \* AffinityScorer.score: the returned list
    videos,           \* FinalRanker.rank: the input video list
    virality_scores,  \* FinalRanker.rank: id -> virality
    relevance_scores, \* FinalRanker.rank: id -> relevance
    presorted,        \* FinalRanker.rank: recommendations after the first sort
    recommendations,  \* FinalRanker.rank: the returned list
    locals,           \* RelevanceScorer.score_batch: scores, user_embedding, loop index
    generate_log,     \* the calls of EmbeddingGenerator.generate, in order
    api_client,       \* TikTokAPIClient: last_request_time, cache
    clock,            \* time.time(), in ticks
    search,           \* TikTokAPIClient.search_videos or another paging method: arguments and locals
    request_log,      \* the completions of _rate_limit and the answers of _make_request
    args              \* the arguments of a helper method called on its own

vars == <<op, video, user_tags, embedding, result, parts, tag_mappings,
          user_data, content, scored_tags, videos, virality_scores,
          relevance_scores, presorted, recommendations,
          locals, generate_log, api_client, clock, search,
          request_log, args>>

(* The variables of the batch calls, and their value outside such a call.  *)
batch_vars == <<locals, generate_log>>
BatchIdle == locals = << >> /\ generate_log = << >>

(* The variables of the API client, and their value where no client is     *)
(* constructed.                                                            *)
api_vars == <<api_client, clock, search, request_log>>
ApiIdle == api_client = << >> /\ clock = 0 /\ search = << >> /\ request_log = << >>

-----------------------------------------------------------------------------
(* Python dict.get(key, default)                                           *)
Get(d, k, default) == IF k \in DOMAIN d THEN d[k] ELSE default

(* Exact rational arithmetic standing for Python float arithmetic.         *)
Min(a, b) == IF a <= b THEN a ELSE b

Abs(n) == IF n < 0 THEN -n ELSE n

RECURSIVE Gcd(_, _)
Gcd(a, b) == IF b = 0 THEN a ELSE Gcd(b, a % b)

Rat(n, d) ==
    LET s == IF d < 0 THEN -1 ELSE 1
        g == Gcd(Abs(n), Abs(d))
    IN  <<(s * n) \div g, (s * d) \div g>>

R(n) == <<n, 1>>

RAdd(x, y) ==
    LET g == Gcd(x[2], y[2])
    IN  Rat(x[1] * (y[2] \div g) + y[1] * (x[2] \div g), (x[2] \div g) * y[2])

RNeg(x) == <<-x[1], x[2]>>

RSub(x, y) == RAdd(x, RNeg(y))

RMul(x, y) ==
    LET g1 == Gcd(Abs(x[1]), y[2])
        g2 == Gcd(Abs(y[1]), x[2])
    IN  Rat((x[1] \div g1) * (y[1] \div g2), (x[2] \div g2) * (y[2] \div g1))

RDiv(x, y) == RMul(x, IF y[1] < 0 THEN <<-y[2], -y[1]>> ELSE <<y[2], y[1]>>)

RLe(x, y) ==
    LET g == Gcd(x[2], y[2])
    IN  x[1] * (y[2] \div g) <= y[1] * (x[2] \div g)

RLt(x, y) == ~RLe(y, x)

RMin(x, y) == IF RLe(x, y) THEN x ELSE y

RMax(x, y) == IF RLe(y, x) THEN x ELSE y

Zero == R(0)
One == R(1)
Half == Rat(1, 2)
IsUnit(x) == RLe(Zero, x) /\ RLe(x, One)

-----------------------------------------------------------------------------
(* ViralityScorer (src/stages/scoring/virality_scorer.py)                  *)

(* Timestamps are counted in hours, so that the range datetime accepts     *)
(* fits the model's integers; timedelta.days is the floor of the age in    *)
(* days.                                                                   *)
HoursPerDay == 24
Now == HoursPerDay * 400
MaxTimestamp == HoursPerDay * 2932897
MinTimestamp == -(HoursPerDay * 719162)
NoTime == << >>

(* normalize_plays with the base 0.3 of the second segment left out.       *)
normalize_plays_nobase(plays) ==
    IF plays < 10000 THEN RMul(Rat(plays, 10000), Rat(3, 10))
    ELSE IF plays < 100000
        THEN RMul(Rat(plays - 10000, 90000), Rat(3, 10))
    ELSE IF plays < 1000000
        THEN RAdd(Rat(6, 10), RMul(Rat(plays - 100000, 900000), Rat(2, 10)))
    ELSE IF plays < 10000000
        THEN RAdd(Rat(8, 10), RMul(Rat(plays - 1000000, 9000000), Rat(15, 100)))
    ELSE RAdd(Rat(95, 100), RMin(Rat(5, 100), Rat(plays, 100000000)))

normalize_plays(plays) ==
    IF plays < 10000 THEN RMul(Rat(plays, 10000), Rat(3, 10))
    ELSE IF plays < 100000
        THEN RAdd(Rat(3, 10), RMul(Rat(plays - 10000, 90000), Rat(3, 10)))
    ELSE IF plays < 1000000
        THEN RAdd(Rat(6, 10), RMul(Rat(plays - 100000, 900000), Rat(2, 10)))
    ELSE IF plays < 10000000
        THEN RAdd(Rat(8, 10), RMul(Rat(plays - 1000000, 9000000), Rat(15, 100)))
    ELSE RAdd(Rat(95, 100), RMin(Rat(5, 100), Rat(plays, 100000000)))

normalize_engagement_rate(rate) ==
    IF RLt(rate, Rat(1, 100)) THEN RMul(RDiv(rate, Rat(1, 100)), Rat(3, 10))
    ELSE IF RLt(rate, Rat(5, 100))
        THEN RAdd(Rat(3, 10),
                  RMul(RDiv(RSub(rate, Rat(1, 100)), Rat(4, 100)), Rat(3, 10)))
    ELSE IF RLt(rate, Rat(10, 100))
        THEN RAdd(Rat(6, 10),
                  RMul(RDiv(RSub(rate, Rat(5, 100)), Rat(5, 100)), Rat(25, 100)))
    ELSE IF RLt(rate, Rat(20, 100))
        THEN RAdd(Rat(85, 100),
                  RMul(RDiv(RSub(rate, Rat(10, 100)), Rat(10, 100)), Rat(1, 10)))
    ELSE RAdd(Rat(95, 100), RMin(Rat(5, 100), RSub(rate, Rat(20, 100))))

(* normalize_shares with the third segment starting from 0.3 instead of    *)
(* 0.6, the value the second segment ends at.                              *)
normalize_shares_lowbase(shares) ==
    IF shares < 100 THEN RMul(Rat(shares, 100), Rat(3, 10))
    ELSE IF shares < 1000
        THEN RAdd(Rat(3, 10), RMul(Rat(shares - 100, 900), Rat(3, 10)))
    ELSE IF shares < 10000
        THEN RAdd(Rat(3, 10), RMul(Rat(shares - 1000, 9000), Rat(25, 100)))
    ELSE IF shares < 100000
        THEN RAdd(Rat(85, 100), RMul(Rat(shares - 10000, 90000), Rat(1, 10)))
    ELSE RAdd(Rat(95, 100), RMin(Rat(5, 100), Rat(shares, 1000000)))

normalize_shares(shares) ==
    IF shares < 100 THEN RMul(Rat(shares, 100), Rat(3, 10))
    ELSE IF shares < 1000
        THEN RAdd(Rat(3, 10), RMul(Rat(shares - 100, 900), Rat(3, 10)))
    ELSE IF shares < 10000
        THEN RAdd(Rat(6, 10), RMul(Rat(shares - 1000, 9000), Rat(25, 100)))
    ELSE IF shares < 100000
        THEN RAdd(Rat(85, 100), RMul(Rat(shares - 10000, 90000), Rat(1, 10)))
    ELSE RAdd(Rat(95, 100), RMin(Rat(5, 100), Rat(shares, 1000000)))

(* create_time is <<t>> for the timestamp t, and NoTime when the key is    *)
(* absent (video.get gives None).                                          *)
calculate_time_decay(create_time, now) ==
    IF create_time = NoTime THEN Half
    ELSE IF create_time[1] = 0 THEN Half
    ELSE IF create_time[1] > MaxTimestamp \/ create_time[1] < MinTimestamp
        THEN Half   \* fromtimestamp raises; the bare except returns 0.5
    ELSE LET days_old == (now - create_time[1]) \div HoursPerDay
         IN  IF days_old < 1 THEN One
             ELSE IF days_old < 7 THEN Rat(9, 10)
             ELSE IF days_old < 30 THEN Rat(7, 10)
             ELSE IF days_old < 90 THEN Rat(5, 10)
             ELSE IF days_old < 180 THEN Rat(3, 10)
             ELSE Rat(1, 10)

(* engagement_rate_of without the plays > 0 guard: the rate is taken over *)
(* at least one play.                                                      *)
engagement_rate_of_unguarded(plays, likes, comments, shares) ==
    Rat(likes + comments + shares, IF plays > 0 THEN plays ELSE 1)

engagement_rate_of(plays, likes, comments, shares) ==
    IF plays > 0 THEN Rat(likes + comments + shares, plays) ELSE Zero

(* virality_combine without the clamp and with the time factor unweighted. *)
virality_combine_unweighted(play_score, engagement_score, share_score, tf) ==
    RAdd(RAdd(RAdd(RMul(play_score, Rat(3, 10)),
                   RMul(engagement_score, Rat(3, 10))),
              RMul(share_score, Rat(2, 10))),
         tf)

virality_combine(play_score, engagement_score, share_score, time_factor) ==
    RMin(One,
         RAdd(RAdd(RAdd(RMul(play_score, Rat(3, 10)),
                        RMul(engagement_score, Rat(3, 10))),
                   RMul(share_score, Rat(2, 10))),
              RMul(time_factor, Rat(2, 10))))

virality_parts(v, now) ==
    LET stats == Get(v, "stats", << >>)
        plays == Get(stats, "plays", 0)
        likes == Get(stats, "likes", 0)
        comments == Get(stats, "comments", 0)
        shares == Get(stats, "shares", 0)
        engagement_rate == engagement_rate_of(plays, likes, comments, shares)
    IN  [engagement_rate |-> engagement_rate,
         play_score |-> normalize_plays(plays),
         engagement_score |-> normalize_engagement_rate(engagement_rate),
         share_score |-> normalize_shares(shares),
         time_factor |-> calculate_time_decay(Get(v, "create_time", NoTime), now)]

virality_score_single(v, now) ==
    LET p == virality_parts(v, now)
    IN  virality_combine(p.play_score, p.engagement_score, p.share_score,
                         p.time_factor)


-----------------------------------------------------------------------------
(* Inputs of the virality scorer.  Missing stands for an absent key.       *)
Missing == -1
PlaysVals == {Missing, 0, 1, 100, 5000, 10000, 100000, 1000000, 20000000}
LikesVals == {Missing, 0, 1, 100, 6000000}
CommentsVals == {Missing, 5}
SharesVals == {Missing, 0, 50, 5000, 200000}
AgeDays == {-1, 0, 1, 7, 30, 90, 180}
TimeVals ==
    {NoTime, <<0>>, <<MaxTimestamp + 1>>} \cup
    {<<Now - HoursPerDay * a - h>> : a \in AgeDays, h \in {0}}

Restrict(f, S) == [k \in S |-> f[k]]

MkStats(p, l, c, s) ==
    LET all == [plays |-> p, likes |-> l, comments |-> c, shares |-> s]
    IN  Restrict(all, {k \in DOMAIN all : all[k] # Missing})

MkViralityVideo(p, l, c, s, t) ==
    LET st == MkStats(p, l, c, s)
        all == [stats |-> st, create_time |-> t]
    IN  Restrict(all, {k \in DOMAIN all :
                          /\ (k = "stats" => DOMAIN st # {})
                          /\ (k = "create_time" => t # NoTime)})

-----------------------------------------------------------------------------
(* A specification draws the arguments of one call in its initial state   *)
(* (op = "call"); the action of the call computes what the code returns    *)
(* (op = "return").  The scorers keep no state between calls.              *)
InitVirality ==
    /\ op = "call"
    /\ \E p \in PlaysVals, l \in LikesVals, c \in CommentsVals,
          s \in SharesVals, t \in TimeVals :
           video = MkViralityVideo(p, l, c, s, t)
    /\ user_tags = << >>
    /\ embedding = << >>
    /\ result = Zero
    /\ parts = << >>
    /\ tag_mappings = << >>
    /\ user_data = << >>
    /\ content = << >>
    /\ scored_tags = << >>
    /\ BatchIdle
    /\ ApiIdle
    /\ args = << >>
    /\ videos = << >>
    /\ virality_scores = << >>
    /\ relevance_scores = << >>
    /\ presorted = << >>
    /\ recommendations = << >>

(* One call of ViralityScorer.score_single.                                *)
ViralityScoreSingle ==
    /\ op = "call"
    /\ op' = "return"
    /\ parts' = virality_parts(video, Now)
    /\ result' = virality_score_single(video, Now)
    /\ UNCHANGED <<video, user_tags, embedding, tag_mappings, user_data,
                   content, scored_tags, videos, virality_scores,
                   relevance_scores, presorted, recommendations>>
    /\ UNCHANGED batch_vars
    /\ UNCHANGED api_vars
    /\ UNCHANGED args

NextVirality == ViralityScoreSingle

SpecVirality == InitVirality /\ [][NextVirality]_vars

-----------------------------------------------------------------------------
(* C1: every value returned by ViralityScorer.score_single, for           *)
(* non-negative counters (missing ones read as 0) and any create_time      *)
(* (present, absent, in the future), lies in [0, 1].                       *)
C1_ViralityInUnit == op = "return" => IsUnit(result)

(* A call with the plays counter missing, a create_time in the future and  *)
(* the largest share count, and a call whose result is exactly 1.          *)
C1_Witness ==
    /\ op = "return"
    /\ "stats" \in DOMAIN video
    /\ "plays" \notin DOMAIN video.stats
    /\ Get(video.stats, "shares", 0) = 200000
    /\ "create_time" \in DOMAIN video
    /\ video.create_time[1] > Now
    /\ video.create_time[1] <= MaxTimestamp
    /\ RLt(Zero, result)


(* The video v with its plays and likes counters set to p and l.           *)
WithPlaysLikes(v, p, l) ==
    LET st == Get(v, "stats", << >>)
        st2 == [k \in DOMAIN st \cup {"plays", "likes"} |->
                   IF k = "plays" THEN p ELSE IF k = "likes" THEN l ELSE st[k]]
    IN  [k \in DOMAIN v \cup {"stats"} |-> IF k = "stats" THEN st2 ELSE v[k]]

StatOf(v, k) == Get(Get(v, "stats", << >>), k, 0)

RateOf(v) ==
    engagement_rate_of(StatOf(v, "plays"), StatOf(v, "likes"),
                       StatOf(v, "comments"), StatOf(v, "shares"))

(* C7 as claimed: with likes, comments, shares and create_time fixed, the  *)
(* virality never decreases when plays increase.                           *)
C7_PlaysMonotoneFixedCounters ==
    op = "return" =>
        \A p2 \in PlaysVals \ {Missing} :
            StatOf(video, "plays") <= p2 =>
                RLe(result,
                    virality_score_single(
                        WithPlaysLikes(video, p2, StatOf(video, "likes")), Now))

(* C7 as amended: with comments, shares and create_time fixed and equal    *)
(* engagement rates, the virality never decreases when plays increase.     *)
C7_PlaysMonotoneFixedRate ==
    op = "return" =>
        \A p2 \in PlaysVals \ {Missing}, l2 \in LikesVals \ {Missing} :
            LET v2 == WithPlaysLikes(video, p2, l2)
            IN  (StatOf(video, "plays") <= p2 /\ RateOf(v2) = RateOf(video)) =>
                    RLe(result, virality_score_single(v2, Now))

(* 100 plays with 1 like against 10000 plays with 100 likes: the same      *)
(* positive rate, more plays, and a strictly larger virality.              *)
C7_Witness ==
    /\ op = "return"
    /\ StatOf(video, "plays") = 100
    /\ StatOf(video, "likes") = 1
    /\ RLt(Zero, RateOf(video))
    /\ RateOf(WithPlaysLikes(video, 10000, 100)) = RateOf(video)
    /\ RLt(result, virality_score_single(WithPlaysLikes(video, 10000, 100), Now))


-----------------------------------------------------------------------------
(* Python str operations on sequences of characters.                       *)
LowerChar(c) ==
    CASE c = "A" -> "a" [] c = "B" -> "b" [] c = "C" -> "c" [] c = "D" -> "d"
      [] c = "F" -> "f" [] c = "H" -> "h" [] c = "M" -> "m" [] c = "P" -> "p"
      [] OTHER -> c

Lower(str) == [i \in DOMAIN str |-> LowerChar(str[i])]

(* sub in str                                                              *)
Contains(sub, str) ==
    \E i \in 0..(Len(str) - Len(sub)) : SubSeq(str, i + 1, i + Len(sub)) = sub

(* str.split(sep) for a one-character separator: empty components are     *)
(* kept, and ''.split(sep) is [''].                                        *)
RECURSIVE Split(_, _)
Split(str, sep) ==
    IF \A i \in DOMAIN str : str[i] # sep THEN <<str>>
    ELSE LET i == CHOOSE k \in DOMAIN str :
                       str[k] = sep /\ \A j \in 1..(k - 1) : str[j] # sep
         IN  <<SubSeq(str, 1, i - 1)>> \o Split(SubSeq(str, i + 1, Len(str)), sep)

(* sep.join(list)                                                          *)
RECURSIVE Join(_, _)
Join(sep, list) ==
    IF list = << >> THEN << >>
    ELSE IF Len(list) = 1 THEN list[1]
    ELSE list[1] \o sep \o Join(sep, Tail(list))

(* list[:n]                                                                *)
Take(list, n) == SubSeq(list, 1, IF Len(list) < n THEN Len(list) ELSE n)

InList(x, list) == \E i \in DOMAIN list : list[i] = x

Space == <<" ">>
Underscore == "_"

-----------------------------------------------------------------------------
(* EmbeddingGenerator (src/utils/embeddings.py).  The provider is the      *)
(* environment: env.client says whether the OpenAI client was created,     *)
(* fails says whether this request raises; a vector is returned otherwise. *)
None == "None"
Vector == "vector"

generate(text, client, fails) ==
    IF ~client \/ text = << >> THEN None
    ELSE IF fails THEN None   \* the exception is caught and None returned
    ELSE Vector

-----------------------------------------------------------------------------
(* RelevanceScorer (src/stages/scoring/relevance_scorer.py)                *)

create_video_text(v) ==
    LET hashtags == Get(v, "hashtags", << >>)
        p1 == IF Get(v, "description", << >>) # << >>
                  THEN <<v.description>> ELSE << >>
        p2 == IF hashtags # << >>
                  THEN <<Join(Space, [i \in DOMAIN hashtags |-> <<"#">> \o hashtags[i]])>>
                  ELSE << >>
        p3 == IF Get(v, "music_title", << >>) # << >>
                  THEN <<<<"M", "u", "s", "i", "c", ":", " ">> \o v.music_title>> ELSE << >>
        p4 == IF Get(v, "author", << >>) # << >>
                  THEN <<<<"B", "y", " ", "@">> \o v.author>> ELSE << >>
    IN  Join(Space, p1 \o p2 \o p3 \o p4)

(* tag_award with the full affinity also for a match of a component.       *)
tag_award_full(tag, video_text_lower) ==
    LET tag_name == Lower(tag.tag)
        keywords == Split(tag_name, Underscore)
    IN  IF Contains(tag_name, video_text_lower) THEN tag.affinity
        ELSE IF \E i \in DOMAIN keywords : Contains(keywords[i], video_text_lower)
            THEN tag.affinity
        ELSE Zero

(* The awarded weight of one tag: full affinity for a verbatim match, half *)
(* for a match of an underscore-separated component, else 0.               *)
tag_award(tag, video_text_lower) ==
    LET tag_name == Lower(tag.tag)
        keywords == Split(tag_name, Underscore)
    IN  IF Contains(tag_name, video_text_lower) THEN tag.affinity
        ELSE IF \E i \in DOMAIN keywords : Contains(keywords[i], video_text_lower)
            THEN RMul(tag.affinity, Half)
        ELSE Zero

(* The two accumulators of the loop over the first ten tags.               *)
RECURSIVE total_score_of(_, _)
total_score_of(tags, video_text_lower) ==
    IF tags = << >> THEN Zero
    ELSE RAdd(total_score_of(SubSeq(tags, 1, Len(tags) - 1), video_text_lower),
              tag_award(tags[Len(tags)], video_text_lower))

RECURSIVE max_possible_of(_)
max_possible_of(tags) ==
    IF tags = << >> THEN Zero
    ELSE RAdd(max_possible_of(SubSeq(tags, 1, Len(tags) - 1)),
              tags[Len(tags)].affinity)

(* calculate_tag_match with the neutral 0.5 in place of 0 when the        *)
(* normalizer is 0.                                                        *)
calculate_tag_match_neutral(v, tags) ==
    LET video_text_lower == Lower(create_video_text(v))
        top == Take(tags, 10)
        total_score == total_score_of(top, video_text_lower)
        max_possible == max_possible_of(top)
    IN  IF RLt(Zero, max_possible) THEN RDiv(total_score, max_possible) ELSE Half

calculate_tag_match(v, tags) ==
    LET video_text_lower == Lower(create_video_text(v))
        top == Take(tags, 10)
        total_score == total_score_of(top, video_text_lower)
        max_possible == max_possible_of(top)
    IN  IF RLt(Zero, max_possible) THEN RDiv(total_score, max_possible) ELSE Zero

(* int(x) for x >= 0 and for x < 0 (truncation toward zero)                *)
IntOf(x) == IF x[1] >= 0 THEN x[1] \div x[2] ELSE -((-x[1]) \div x[2])

RECURSIVE Repeat(_, _)
Repeat(list, n) == IF n <= 0 THEN << >> ELSE list \o Repeat(list, n - 1)

(* round(x) for x >= 0: to the nearest integer, a half to the even one.    *)
RoundOf(x) ==
    LET whole == x[1] \div x[2]
        twice == 2 * (x[1] % x[2])
    IN  IF twice < x[2] THEN whole
        ELSE IF twice > x[2] THEN whole + 1
        ELSE IF whole % 2 = 0 THEN whole ELSE whole + 1

(* text_parts_of with round() in place of int().                           *)
RECURSIVE text_parts_of_rounded(_)
text_parts_of_rounded(tags) ==
    IF tags = << >> THEN << >>
    ELSE LET tag == Head(tags)
             k == RoundOf(RMul(tag.affinity, R(3)))
             repetitions == IF k < 1 THEN 1 ELSE k
             once == IF Get(tag, "reason", << >>) # << >>
                         THEN <<tag.tag, tag.reason>> ELSE <<tag.tag>>
         IN  Repeat(once, repetitions) \o text_parts_of_rounded(Tail(tags))

RECURSIVE text_parts_of(_)
text_parts_of(tags) ==
    IF tags = << >> THEN << >>
    ELSE LET tag == Head(tags)
             k == IntOf(RMul(tag.affinity, R(3)))
             repetitions == IF k < 1 THEN 1 ELSE k
             once == IF Get(tag, "reason", << >>) # << >>
                         THEN <<tag.tag, tag.reason>> ELSE <<tag.tag>>
         IN  Repeat(once, repetitions) \o text_parts_of(Tail(tags))

create_user_text(tags) == Join(Space, text_parts_of(Take(tags, 10)))

create_user_embedding(tags, env) ==
    IF tags = << >> THEN None
    ELSE generate(create_user_text(tags), env.client, env.user_fails)

(* The similarity used as it is, not remapped to [0, 1].                   *)
embedding_score_raw(similarity) == similarity

(* (similarity + 1) / 2                                                    *)
embedding_score_of(similarity) == RDiv(RAdd(similarity, One), R(2))

(* The embedding branch with 0 in place of the neutral 0.5 when the video  *)
(* embedding is missing.                                                   *)
embedding_branch_zero(user_embedding, video_embedding, similarity) ==
    IF user_embedding # None
        THEN IF video_embedding # None
                 THEN embedding_score_of(similarity)
                 ELSE Zero
        ELSE Half

(* Lines 66-78 of score_single.                                            *)
embedding_branch(user_embedding, video_embedding, similarity) ==
    IF user_embedding # None
        THEN IF video_embedding # None
                 THEN embedding_score_of(similarity)
                 ELSE Half
        ELSE Half

(* first_source_boost taking the matching tag of the highest affinity      *)
(* instead of the first one.                                               *)
first_source_boost_best(tags, source_tags) ==
    LET matching == {i \in DOMAIN tags : InList(tags[i].tag, source_tags)}
    IN  IF matching = {} THEN Zero
        ELSE LET best == CHOOSE i \in matching :
                             \A j \in matching : RLe(tags[j].affinity, tags[i].affinity)
             IN  RMul(Rat(2, 10), tags[best].affinity)

RECURSIVE first_source_boost(_, _)
first_source_boost(tags, source_tags) ==
    IF tags = << >> THEN Zero
    ELSE IF InList(Head(tags).tag, source_tags)
        THEN RMul(Rat(2, 10), Head(tags).affinity)
    ELSE first_source_boost(Tail(tags), source_tags)

relevance_combine(tag_match_score, embedding_score, source_tag_boost) ==
    RMin(One,
         RAdd(RAdd(RMul(tag_match_score, Rat(4, 10)),
                   RMul(embedding_score, Rat(4, 10))),
              RMul(source_tag_boost, Rat(2, 10))))

relevance_parts(v, tags, user_embedding, env) ==
    LET video_text == create_video_text(v)
        video_embedding ==
            IF user_embedding # None
                THEN generate(video_text, env.client, env.video_fails)
                ELSE None
    IN  [user_embedding |-> user_embedding,
         video_embedding |-> video_embedding,
         tag_match_score |-> calculate_tag_match(v, tags),
         embedding_score |->
             embedding_branch(user_embedding, video_embedding, env.similarity),
         source_tag_boost |->
             first_source_boost(Take(tags, 5), Get(v, "source_tags", << >>))]

relevance_score_single(v, tags, user_embedding, env) ==
    LET p == relevance_parts(v, tags, user_embedding, env)
    IN  relevance_combine(p.tag_match_score, p.embedding_score,
                          p.source_tag_boost)


-----------------------------------------------------------------------------
(* Inputs of the relevance scorer.                                         *)
S_dance == <<"d", "a", "n", "c", "e">>
S_hip_hop == <<"h", "i", "p", "_", "h", "o", "p">>
S_hop == <<"h", "o", "p">>
S_Cat == <<"C", "a", "t">>
S_cat == <<"c", "a", "t">>
S_music == <<"m", "u", "s", "i", "c">>
S_zz == <<"z", "z">>
S_x_ == <<"x", "_">>
S_Pop == <<"P", "o", "p">>
S_ann == <<"a", "n", "n">>
S_DanceFun == <<"D", "a", "n", "c", "e", " ", "f", "u", "n">>
S_my_cat == <<"m", "y", " ", "c", "a", "t">>
S_reason == <<"f", "a", "n">>

TagPool ==
    {[tag |-> S_dance, affinity |-> Rat(9, 10), reason |-> S_reason],
     [tag |-> S_hip_hop, affinity |-> Rat(1, 2)],
     [tag |-> S_Cat, affinity |-> One],
     [tag |-> S_music, affinity |-> Rat(3, 10), reason |-> << >>],
     [tag |-> S_zz, affinity |-> Zero],
     [tag |-> S_x_, affinity |-> Rat(7, 10)]}

MaxTagsLen == 2

RECURSIVE SeqsUpTo(_, _)
SeqsUpTo(S, n) ==
    IF n = 0 THEN {<< >>}
    ELSE LET shorter == SeqsUpTo(S, n - 1)
         IN  shorter \cup {Append(q, x) : q \in {r \in shorter : Len(r) = n - 1},
                                          x \in S}

(* Eleven tags: the eleventh lies beyond the [:10] cut, the sixth beyond   *)
(* the [:5] cut.                                                           *)
LongTagLists ==
    {[i \in 1..11 |->
         IF i = 6 THEN [tag |-> S_hip_hop, affinity |-> Rat(1, 2)]
         ELSE IF i = 11 THEN last
         ELSE [tag |-> S_zz, affinity |-> Rat(1, 10)]] :
     last \in {[tag |-> S_dance, affinity |-> Rat(9, 10)],
               [tag |-> S_zz, affinity |-> Rat(1, 10)]}}

TagLists == SeqsUpTo(TagPool, MaxTagsLen) \cup LongTagLists

RelevanceVideos ==
    {[id |-> "v1", description |-> S_DanceFun, hashtags |-> <<S_dance, S_hop>>,
      music_title |-> S_Pop, author |-> S_cat, source_tags |-> <<S_dance>>],
     << >>,
     [id |-> "v3", description |-> S_my_cat, source_tags |-> <<S_Cat, S_hip_hop>>],
     [id |-> "v4", hashtags |-> <<S_hop>>, author |-> S_ann,
      source_tags |-> <<S_zz, S_x_>>]}

Similarities == {R(-1), Zero, Rat(1, 3), One}

(* direct: score_single is called without a user embedding (the default    *)
(* None) instead of through score_batch.                                   *)
(* The similarity is varied only when it is read (both requests succeed),  *)
(* and the failure flags only when a request is made.                      *)
EmbeddingEnvs ==
    {e \in [client : BOOLEAN, user_fails : BOOLEAN, video_fails : BOOLEAN,
            similarity : Similarities, direct : BOOLEAN] :
        /\ (~e.client \/ e.direct) => (~e.user_fails /\ ~e.video_fails)
        /\ e.direct => e.client
        /\ (~e.client \/ e.direct \/ e.user_fails \/ e.video_fails)
               => e.similarity = One}

InitRelevance ==
    /\ op = "call"
    /\ video \in RelevanceVideos
    /\ user_tags \in TagLists
    /\ embedding \in EmbeddingEnvs
    /\ result = Zero
    /\ parts = << >>
    /\ tag_mappings = << >>
    /\ user_data = << >>
    /\ content = << >>
    /\ scored_tags = << >>
    /\ BatchIdle
    /\ ApiIdle
    /\ args = << >>
    /\ videos = << >>
    /\ virality_scores = << >>
    /\ relevance_scores = << >>
    /\ presorted = << >>
    /\ recommendations = << >>

(* One call of RelevanceScorer.score_single, with the user embedding that  *)
(* score_batch computes first (line 33) or with the default None.          *)
RelevanceScoreSingle ==
    /\ op = "call"
    /\ op' = "return"
    /\ LET user_embedding ==
               IF embedding.direct THEN None
               ELSE create_user_embedding(user_tags, embedding)
       IN  /\ parts' = relevance_parts(video, user_tags, user_embedding, embedding)
           /\ result' = relevance_score_single(video, user_tags, user_embedding,
                                               embedding)
    /\ UNCHANGED <<video, user_tags, embedding, tag_mappings, user_data,
                   content, scored_tags, videos, virality_scores,
                   relevance_scores, presorted, recommendations>>
    /\ UNCHANGED batch_vars
    /\ UNCHANGED api_vars
    /\ UNCHANGED args

NextRelevance == RelevanceScoreSingle

SpecRelevance == InitRelevance /\ [][NextRelevance]_vars

-----------------------------------------------------------------------------
(* C2: for user tags with affinities in [0, 1] and any similarity in       *)
(* [-1, 1] or an unavailable embedding, RelevanceScorer.score_single       *)
(* returns a value in [0, 1].                                              *)
C2_RelevanceInUnit == op = "return" => IsUnit(result)

(* A call where both embeddings exist with similarity -1, a tag matches    *)
(* verbatim and a source tag gives a boost.                                *)
C2_Witness ==
    /\ op = "return"
    /\ parts.user_embedding = Vector
    /\ parts.video_embedding = Vector
    /\ embedding.similarity = R(-1)
    /\ parts.embedding_score = Zero
    /\ parts.tag_match_score = One
    /\ RLt(Zero, parts.source_tag_boost)

(* C10: when the provider returns nothing for the user-interest text or    *)
(* for the video text, the embedding sub-score is 0.5 and the result is    *)
(* 0.4*tag_match + 0.4*0.5 + 0.2*source_tag_boost.                         *)
C10_NeutralEmbedding ==
    (op = "return" /\ (parts.user_embedding = None \/ parts.video_embedding = None))
        => /\ parts.embedding_score = Half
           /\ result = RAdd(RAdd(RMul(Rat(4, 10), parts.tag_match_score),
                                 RMul(Rat(4, 10), Half)),
                            RMul(Rat(2, 10), parts.source_tag_boost))

(* The user embedding was returned, the request for the video text         *)
(* raised inside the provider, and tag match and boost are positive.       *)
C10_Witness ==
    /\ op = "return"
    /\ embedding.client
    /\ embedding.video_fails
    /\ parts.user_embedding = Vector
    /\ parts.video_embedding = None
    /\ RLt(Zero, parts.tag_match_score)
    /\ RLt(Zero, parts.source_tag_boost)

(* The provider returned nothing for the user-interest text.               *)
C10_WitnessUser ==
    /\ op = "return"
    /\ embedding.client
    /\ embedding.user_fails
    /\ ~embedding.direct
    /\ user_tags # << >>
    /\ parts.user_embedding = None
    /\ RLt(Zero, parts.tag_match_score)


-----------------------------------------------------------------------------
(* AffinityScorer (src/stages/scoring/affinity_scorer.py)                  *)

(* item_matches with the tag looked for inside every hashtag, as it is     *)
(* inside the description.                                                 *)
item_matches_substring(item, tag) ==
    LET desc_lower == Lower(Get(item, "description", << >>))
        hashtags == Get(item, "hashtags", << >>)
    IN  \/ Contains(tag, desc_lower)
        \/ \E i \in DOMAIN hashtags : Contains(tag, Lower(hashtags[i]))

(* An item matches when the lowercased tag is a substring of its           *)
(* lowercased description or an element of its lowercased hashtag list.    *)
item_matches(item, tag) ==
    LET desc_lower == Lower(Get(item, "description", << >>))
        hashtags == Get(item, "hashtags", << >>)
        hashtags_lower == [i \in DOMAIN hashtags |-> Lower(hashtags[i])]
    IN  Contains(tag, desc_lower) \/ InList(tag, hashtags_lower)

item_engagement(item) ==
    LET stats == Get(item, "stats", << >>)
    IN  Get(stats, "likes", 0) + Get(stats, "comments", 0) * 2
            + Get(stats, "shares", 0) * 3

RECURSIVE analyze_content_relevance(_, _, _)
analyze_content_relevance(items, tag, weight) ==
    IF items = << >> THEN Zero
    ELSE LET rest == analyze_content_relevance(
                         SubSeq(items, 1, Len(items) - 1), tag, weight)
             item == items[Len(items)]
         IN  IF item_matches(item, tag)
                 THEN RAdd(rest, RMul(R(item_engagement(item)), weight))
                 ELSE rest

calculate_engagement_boost(tag, posts, reposts, liked_posts) ==
    LET tag_lower == Lower(tag)
        post_relevance == analyze_content_relevance(posts, tag_lower, One)
        repost_relevance == analyze_content_relevance(reposts, tag_lower, Rat(8, 10))
        liked_relevance == analyze_content_relevance(liked_posts, tag_lower, Rat(6, 10))
        total_relevance == RAdd(RAdd(post_relevance, repost_relevance), liked_relevance)
    IN  RMin(Rat(2, 10), RDiv(total_relevance, R(100)))

(* calculate_influence_factor with the boundaries in the lower step.       *)
calculate_influence_factor_inclusive(data) ==
    LET followers == Get(data, "follower_count", 0)
    IN  IF followers <= 1000 THEN Rat(8, 10)
        ELSE IF followers <= 10000 THEN Rat(9, 10)
        ELSE IF followers <= 100000 THEN One
        ELSE IF followers <= 1000000 THEN Rat(11, 10)
        ELSE Rat(12, 10)

calculate_influence_factor(data) ==
    LET followers == Get(data, "follower_count", 0)
    IN  IF followers < 1000 THEN Rat(8, 10)
        ELSE IF followers < 10000 THEN Rat(9, 10)
        ELSE IF followers < 100000 THEN One
        ELSE IF followers < 1000000 THEN Rat(11, 10)
        ELSE Rat(12, 10)

(* final_affinity without the clamp to 1.0.                                *)
final_affinity_unclamped(base_affinity, engagement_boost, influence_factor) ==
    RAdd(base_affinity, RMul(engagement_boost, influence_factor))

final_affinity_of(base_affinity, engagement_boost, influence_factor) ==
    RMin(One, RAdd(base_affinity, RMul(engagement_boost, influence_factor)))

affinity_score(mappings, data, posts, reposts, liked_posts) ==
    [i \in DOMAIN mappings |->
        LET mapping == mappings[i]
            base_affinity == Get(mapping, "affinity", Half)
            engagement_boost ==
                calculate_engagement_boost(mapping.tag, posts, reposts, liked_posts)
            influence_factor == calculate_influence_factor(data)
        IN  [tag |-> mapping.tag,
             affinity |-> final_affinity_of(base_affinity, engagement_boost,
                                            influence_factor),
             reason |-> Get(mapping, "reason", << >>),
             base_affinity |-> base_affinity,
             engagement_boost |-> engagement_boost]]

-----------------------------------------------------------------------------
(* Inputs of the affinity scorer.                                          *)
S_DanceVideo == <<"D", "a", "n", "c", "e", " ", "v", "i", "d", "e", "o", " ", "#", "d", "a", "n", "c", "e">>
S_Dance == <<"D", "a", "n", "c", "e">>
S_dancer == <<"d", "a", "n", "c", "e", "r">>

MappingPool ==
    {[tag |-> S_Dance, affinity |-> Rat(19, 20), reason |-> S_reason],
     [tag |-> S_dance],
     [tag |-> S_cat, affinity |-> Zero]}

PostPool ==
    {[description |-> S_DanceVideo, hashtags |-> <<S_Dance>>,
      stats |-> [likes |-> 10, comments |-> 2, shares |-> 1]],
     [hashtags |-> <<S_dancer, S_Cat>>, stats |-> [likes |-> 1]],
     [description |-> S_my_cat]}

RepostPool == {[description |-> S_DanceFun, stats |-> [shares |-> 1]]}

LikedPool == {[hashtags |-> <<S_dance>>, stats |-> [comments |-> 4]]}

FollowerVals ==
    {Missing, 0, 999, 1000, 9999, 10000, 99999, 100000, 999999, 1000000,
     5000000}

MaxMappings == 2
MaxItems == 1

InitAffinity ==
    /\ op = "call"
    /\ tag_mappings \in SeqsUpTo(MappingPool, MaxMappings)
    /\ \E f \in FollowerVals :
           user_data = IF f = Missing THEN << >> ELSE [follower_count |-> f]
    /\ content \in [posts : SeqsUpTo(PostPool, MaxItems),
                    reposts : SeqsUpTo(RepostPool, MaxItems),
                    liked_posts : SeqsUpTo(LikedPool, MaxItems)]
    /\ scored_tags = << >>
    /\ BatchIdle
    /\ ApiIdle
    /\ args = << >>
    /\ video = << >>
    /\ user_tags = << >>
    /\ embedding = << >>
    /\ result = Zero
    /\ parts = << >>
    /\ videos = << >>
    /\ virality_scores = << >>
    /\ relevance_scores = << >>
    /\ presorted = << >>
    /\ recommendations = << >>

(* One call of AffinityScorer.score.                                       *)
AffinityScore ==
    /\ op = "call"
    /\ op' = "return"
    /\ scored_tags' = affinity_score(tag_mappings, user_data, content.posts,
                                     content.reposts, content.liked_posts)
    /\ parts' = [influence_factor |-> calculate_influence_factor(user_data)]
    /\ UNCHANGED <<video, user_tags, embedding, result, tag_mappings,
                   user_data, content, videos, virality_scores,
                   relevance_scores, presorted, recommendations>>
    /\ UNCHANGED batch_vars
    /\ UNCHANGED api_vars
    /\ UNCHANGED args

NextAffinity == AffinityScore

SpecAffinity == InitAffinity /\ [][NextAffinity]_vars

-----------------------------------------------------------------------------
(* C3: every tag returned by AffinityScorer.score has an affinity in       *)
(* [0, 1]; when base_affinity + engagement_boost * influence_factor        *)
(* exceeds 1 the affinity is exactly 1.                                    *)
C3_AffinityInUnit ==
    op = "return" =>
        /\ Len(scored_tags) = Len(tag_mappings)
        /\ \A i \in DOMAIN scored_tags :
               LET t == scored_tags[i]
                   raw == RAdd(t.base_affinity,
                               RMul(t.engagement_boost,
                                    calculate_influence_factor(user_data)))
               IN  /\ IsUnit(t.affinity)
                   /\ RLt(One, raw) => t.affinity = One
                   /\ RLe(raw, One) => t.affinity = raw

(* A tag with base affinity 0.95 and a positive boost under the largest    *)
(* influence factor: the unclamped sum exceeds 1.                          *)
C3_Witness ==
    /\ op = "return"
    /\ \E i \in DOMAIN scored_tags :
           /\ scored_tags[i].base_affinity = Rat(19, 20)
           /\ RLt(Zero, scored_tags[i].engagement_boost)
           /\ RLt(One, RAdd(scored_tags[i].base_affinity,
                            RMul(scored_tags[i].engagement_boost, Rat(12, 10))))
           /\ Get(user_data, "follower_count", 0) = 1000000
           /\ scored_tags[i].affinity = One


-----------------------------------------------------------------------------
(* FinalRanker (src/stages/scoring/final_ranker.py)                        *)

(* settings.virality_weight, relevance_weight, engagement_weight           *)
virality_weight == Rat(3, 10)
relevance_weight == Rat(4, 10)
engagement_weight == Rat(3, 10)

(* calculate_engagement_quality without the clamp at 1.                    *)
calculate_engagement_quality_unclamped(v) ==
    LET stats == Get(v, "stats", << >>)
        plays == Get(stats, "plays", 0)
        likes == Get(stats, "likes", 0)
        comments == Get(stats, "comments", 0)
        shares == Get(stats, "shares", 0)
    IN  IF plays = 0 THEN Half
        ELSE RMul(RAdd(RAdd(RMul(Rat(likes, plays), Rat(3, 10)),
                            RMul(Rat(comments, plays), Rat(4, 10))),
                       RMul(Rat(shares, plays), Rat(3, 10))),
                  R(10))

(* calculate_engagement_quality scaled so that a like ratio of 10% alone   *)
(* gives 1: the weighted ratios are multiplied by 100/3.                   *)
calculate_engagement_quality_rescaled(v) ==
    LET stats == Get(v, "stats", << >>)
        plays == Get(stats, "plays", 0)
        likes == Get(stats, "likes", 0)
        comments == Get(stats, "comments", 0)
        shares == Get(stats, "shares", 0)
    IN  IF plays = 0 THEN Half
        ELSE RMin(One,
                  RMul(RAdd(RAdd(RMul(Rat(likes, plays), Rat(3, 10)),
                                 RMul(Rat(comments, plays), Rat(4, 10))),
                            RMul(Rat(shares, plays), Rat(3, 10))),
                       Rat(100, 3)))

calculate_engagement_quality(v) ==
    LET stats == Get(v, "stats", << >>)
        plays == Get(stats, "plays", 0)
        likes == Get(stats, "likes", 0)
        comments == Get(stats, "comments", 0)
        shares == Get(stats, "shares", 0)
    IN  IF plays = 0 THEN Half
        ELSE LET like_ratio == IF plays > 0 THEN Rat(likes, plays) ELSE Zero
                 comment_ratio == IF plays > 0 THEN Rat(comments, plays) ELSE Zero
                 share_ratio == IF plays > 0 THEN Rat(shares, plays) ELSE Zero
                 quality_score ==
                     RAdd(RAdd(RMul(like_ratio, Rat(3, 10)),
                               RMul(comment_ratio, Rat(4, 10))),
                          RMul(share_ratio, Rat(3, 10)))
             IN  RMin(One, RMul(quality_score, R(10)))

(* The user tags, in order, that match the video text.                     *)
RECURSIVE matching_user_tags(_, _)
matching_user_tags(tags, video_text) ==
    IF tags = << >> THEN << >>
    ELSE LET front == matching_user_tags(SubSeq(tags, 1, Len(tags) - 1), video_text)
             tag == tags[Len(tags)]
             tag_name == Lower(tag.tag)
             keywords == Split(tag_name, Underscore)
         IN  IF \/ Contains(tag_name, video_text)
                \/ \E i \in DOMAIN keywords : Contains(keywords[i], video_text)
                 THEN Append(front, tag.tag)
                 ELSE front

(* append_source_tags without the test "tag not in matched".               *)
append_source_tags_all(matched, source_tags) == matched \o source_tags

(* matched extended by the source tags not already in it.                  *)
RECURSIVE append_source_tags(_, _)
append_source_tags(matched, source_tags) ==
    IF source_tags = << >> THEN matched
    ELSE append_source_tags(
             IF InList(Head(source_tags), matched) THEN matched
             ELSE Append(matched, Head(source_tags)),
             Tail(source_tags))

find_matched_tags(v, tags) ==
    LET video_text ==
            Lower(Get(v, "description", << >>) \o Space
                    \o Join(Space, Get(v, "hashtags", << >>)))
        matched == matching_user_tags(tags, video_text)
    IN  Take(append_source_tags(matched, Get(v, "source_tags", << >>)), 5)

weighted_score(virality, relevance, engagement) ==
    RAdd(RAdd(RMul(virality, virality_weight), RMul(relevance, relevance_weight)),
         RMul(engagement, engagement_weight))

(* scores.get(video_id) with 0 in place of the default 0.5.                *)
lookup_score_zero(scores, video_id) == Get(scores, video_id, Zero)

(* scores.get(video_id, 0.5)                                               *)
lookup_score(scores, video_id) == Get(scores, video_id, Half)

(* The recommendation built for videos[i]; src is the index of the video   *)
(* in the input list (kept to relate the output to the input).             *)
make_recommendation(v, i, vscores, rscores, profile) ==
    LET video_id == v.id
        virality == lookup_score(vscores, video_id)
        relevance == lookup_score(rscores, video_id)
        engagement == calculate_engagement_quality(v)
    IN  [video_id |-> video_id,
         description |-> Get(v, "description", << >>),
         author |-> Get(v, "author", << >>),
         url |-> Get(v, "url", << >>),
         score |-> weighted_score(virality, relevance, engagement),
         scores |-> [virality |-> virality, relevance |-> relevance,
                     engagement |-> engagement],
         matched_tags |-> find_matched_tags(v, Get(profile, "tags", << >>)),
         stats |-> Get(v, "stats", << >>),
         create_time |-> Get(v, "create_time", NoTime),
         music_title |-> Get(v, "music_title", << >>),
         hashtags |-> Get(v, "hashtags", << >>),
         src |-> i]

(* The id test reduced to the presence of the key.                         *)
has_id_key_only(v) == "id" \in DOMAIN v

(* not video_id: the key is absent (None) or the id is the empty string.   *)
has_id(v) == Get(v, "id", << >>) # << >>

RECURSIVE build_recommendations(_, _, _, _, _)
build_recommendations(vs, n, vscores, rscores, profile) ==
    IF n = 0 THEN << >>
    ELSE LET front == build_recommendations(vs, n - 1, vscores, rscores, profile)
         IN  IF ~has_id(vs[n]) THEN front
             ELSE Append(front,
                         make_recommendation(vs[n], n, vscores, rscores, profile))

(* An unstable insertion: the element is placed before its equals.        *)
insert_desc_before_equals(sorted, x) ==
    LET k == Cardinality({i \in DOMAIN sorted : RLt(x.score, sorted[i].score)})
    IN  SubSeq(sorted, 1, k) \o <<x>> \o SubSeq(sorted, k + 1, Len(sorted))

(* list.sort(key = score, reverse = True): descending and stable, an       *)
(* element is placed after every element whose score is >= its own.        *)
insert_desc(sorted, x) ==
    LET k == Cardinality({i \in DOMAIN sorted : RLe(x.score, sorted[i].score)})
    IN  SubSeq(sorted, 1, k) \o <<x>> \o SubSeq(sorted, k + 1, Len(sorted))

RECURSIVE sort_desc(_)
sort_desc(list) ==
    IF list = << >> THEN << >>
    ELSE insert_desc(sort_desc(SubSeq(list, 1, Len(list) - 1)), list[Len(list)])

SeqRange(list) == {list[i] : i \in DOMAIN list}

(* The scan with both thresholds one item early (len > 2, len > 4).        *)
diversity_step_early(acc, rec) ==
    LET author == rec.author
        tags == SeqRange(rec.matched_tags)
        s1 == IF author \in acc.seen_authors /\ Len(acc.diverse_recs) > 2
                  THEN RMul(rec.score, Rat(9, 10)) ELSE rec.score
        s2 == IF tags # {} /\ tags \subseteq acc.seen_tags /\ Len(acc.diverse_recs) > 4
                  THEN RMul(s1, Rat(85, 100)) ELSE s1
    IN  [diverse_recs |-> Append(acc.diverse_recs, [rec EXCEPT !.score = s2]),
         seen_authors |-> acc.seen_authors \cup {author},
         seen_tags |-> acc.seen_tags \cup tags]

(* The scan with the author already seen when the item is examined         *)
(* (seen_authors.add before the test), so that a first occurrence is       *)
(* penalized too.                                                          *)
diversity_step_self_seen(acc, rec) ==
    LET author == rec.author
        tags == SeqRange(rec.matched_tags)
        s1 == IF Len(acc.diverse_recs) > 3
                  THEN RMul(rec.score, Rat(9, 10)) ELSE rec.score
        s2 == IF tags # {} /\ tags \subseteq acc.seen_tags /\ Len(acc.diverse_recs) > 5
                  THEN RMul(s1, Rat(85, 100)) ELSE s1
    IN  [diverse_recs |-> Append(acc.diverse_recs, [rec EXCEPT !.score = s2]),
         seen_authors |-> acc.seen_authors \cup {author},
         seen_tags |-> acc.seen_tags \cup tags]

(* One iteration of the scan of _apply_diversity_boost.                    *)
diversity_step(acc, rec) ==
    LET author == rec.author
        tags == SeqRange(rec.matched_tags)
        s1 == IF author \in acc.seen_authors /\ Len(acc.diverse_recs) > 3
                  THEN RMul(rec.score, Rat(9, 10)) ELSE rec.score
        s2 == IF tags # {} /\ tags \subseteq acc.seen_tags /\ Len(acc.diverse_recs) > 5
                  THEN RMul(s1, Rat(85, 100)) ELSE s1
    IN  [diverse_recs |-> Append(acc.diverse_recs, [rec EXCEPT !.score = s2]),
         seen_authors |-> acc.seen_authors \cup {author},
         seen_tags |-> acc.seen_tags \cup tags]

RECURSIVE diversity_scan(_, _)
diversity_scan(recs, n) ==
    IF n = 0 THEN [diverse_recs |-> << >>, seen_authors |-> {}, seen_tags |-> {}]
    ELSE diversity_step(diversity_scan(recs, n - 1), recs[n])

(* The diversity pass run for a list of 10 already (len < 10 skips).       *)
apply_diversity_boost_from_ten(recs) ==
    IF Len(recs) < 10 THEN recs
    ELSE sort_desc(diversity_scan(recs, Len(recs)).diverse_recs)

(* The diversity pass without the final sort.                              *)
apply_diversity_boost_unsorted(recs) ==
    IF Len(recs) <= 10 THEN recs
    ELSE diversity_scan(recs, Len(recs)).diverse_recs

(* The diversity pass run a second time on its own result.                 *)
apply_diversity_boost_twice(recs) ==
    IF Len(recs) <= 10 THEN recs
    ELSE LET once == sort_desc(diversity_scan(recs, Len(recs)).diverse_recs)
         IN  sort_desc(diversity_scan(once, Len(once)).diverse_recs)

apply_diversity_boost(recs) ==
    IF Len(recs) <= 10 THEN recs
    ELSE sort_desc(diversity_scan(recs, Len(recs)).diverse_recs)

first_sort(vs, vscores, rscores, profile) ==
    sort_desc(build_recommendations(vs, Len(vs), vscores, rscores, profile))

rank(vs, vscores, rscores, profile) ==
    apply_diversity_boost(first_sort(vs, vscores, rscores, profile))


-----------------------------------------------------------------------------
(* Inputs of the ranker.  A video list is a background of n videos whose   *)
(* fields follow a pattern in the index, with at most one further video    *)
(* (the probe) inserted at any position.                                   *)
MaxVideos == 12

Sym(i) == <<"0", "1", "2", "3", "4", "5", "6", "7", "8", "9", "a", "b", "c", "d", "e", "f", "g", "h", "i", "j">>[i + 1]

ScorePatterns == {"desc", "asc", "equal", "unscored"}
AuthorMods == {1, 3, 16}
TagMods == {0, 2, 16}

(* The virality and relevance of background video i.                       *)
Level(sp, i) ==
    IF sp = "desc" THEN Rat(20 - i, 20)
    ELSE IF sp = "asc" THEN Rat(4 + i, 20)
    ELSE Half

BackgroundVideo(i, am, tm) ==
    LET all == [id |-> <<"v", Sym(i)>>,
                author |-> <<"u", Sym(i % am)>>,
                stats |-> [plays |-> 10],
                source_tags |-> <<<<"t", Sym(i % (IF tm = 0 THEN 1 ELSE tm))>>>>]
    IN  Restrict(all, {k \in DOMAIN all : k = "source_tags" => tm # 0})

ProbeKinds == {"noid", "emptyid", "unscored", "half", "top", "dupid"}

ProbeVideo(kind) ==
    IF kind = "noid" THEN [author |-> <<"u", "1">>, stats |-> [plays |-> 10]]
    ELSE IF kind = "emptyid"
        THEN [id |-> << >>, author |-> <<"u", "1">>, description |-> S_DanceFun]
    ELSE IF kind = "unscored"
        THEN [id |-> <<"p">>, author |-> <<"u", "1">>, description |-> S_DanceFun,
              hashtags |-> <<S_hop>>]
    ELSE IF kind = "half"
        THEN [id |-> <<"p">>, author |-> <<"u", "1">>, stats |-> [plays |-> 10]]
    ELSE IF kind = "top"
        THEN [id |-> <<"p">>, stats |-> [plays |-> 10, comments |-> 5],
              source_tags |-> <<<<"t", "1">>, <<"t", "0">>>>]
    ELSE [id |-> <<"v", "1">>, author |-> <<"u", "x">>, stats |-> [plays |-> 10],
          source_tags |-> <<<<"t", "1">>>>]

(* The list of n background videos with the probe at position k            *)
(* (k = 0: no probe).                                                      *)
BuildVideos(n, am, tm, k, kind) ==
    LET bg == [i \in 1..n |-> BackgroundVideo(i, am, tm)]
    IN  IF k = 0 THEN bg
        ELSE SubSeq(bg, 1, k - 1) \o <<ProbeVideo(kind)>> \o SubSeq(bg, k, n)

BuildScores(n, sp, k, kind) ==
    LET ids == IF sp = "unscored" THEN {} ELSE {<<"v", Sym(i)>> : i \in 1..n}
        scored == ids \cup (IF k # 0 /\ kind \in {"half", "top"} THEN {<<"p">>} ELSE {})
    IN  [id \in scored |->
            IF id = <<"p">> THEN (IF kind = "top" THEN One ELSE Half)
            ELSE Level(sp, CHOOSE i \in 1..n : id = <<"v", Sym(i)>>)]

RankProfile == [username |-> S_ann,
                tags |-> <<[tag |-> S_dance, affinity |-> Rat(9, 10)],
                           [tag |-> S_hip_hop, affinity |-> Half]>>]

InitRank ==
    /\ op = "call"
    /\ \E n \in 0..MaxVideos, sp \in ScorePatterns, am \in AuthorMods,
          tm \in TagMods, k \in 0..MaxVideos, kind \in ProbeKinds :
           /\ k <= n + 1
           /\ (k = 0 => kind = "noid")
           /\ (k # 0 => n < MaxVideos)
           /\ videos = BuildVideos(n, am, tm, k, kind)
           /\ virality_scores = BuildScores(n, sp, k, kind)
           /\ relevance_scores = BuildScores(n, sp, k, kind)
    /\ user_data = RankProfile
    /\ presorted = << >>
    /\ recommendations = << >>
    /\ video = << >>
    /\ user_tags = << >>
    /\ embedding = << >>
    /\ result = Zero
    /\ parts = << >>
    /\ tag_mappings = << >>
    /\ content = << >>
    /\ scored_tags = << >>
    /\ BatchIdle
    /\ ApiIdle
    /\ args = << >>

(* One call of FinalRanker.rank; presorted is the list after the first     *)
(* sort (line 74), recommendations the list returned.                      *)
Rank ==
    /\ op = "call"
    /\ op' = "return"
    /\ presorted' = first_sort(videos, virality_scores, relevance_scores, user_data)
    /\ recommendations' = apply_diversity_boost(presorted')
    /\ UNCHANGED <<video, user_tags, embedding, result, parts, tag_mappings,
                   user_data, content, scored_tags, videos, virality_scores,
                   relevance_scores>>
    /\ UNCHANGED batch_vars
    /\ UNCHANGED api_vars
    /\ UNCHANGED args

NextRank == Rank

SpecRank == InitRank /\ [][NextRank]_vars


-----------------------------------------------------------------------------
(* The unpenalized weighted sum of a recommendation's score breakdown.     *)
WeightedOf(rec) ==
    weighted_score(rec.scores.virality, rec.scores.relevance, rec.scores.engagement)

(* The position in the list after the first sort of the recommendation     *)
(* made from videos[src].                                                  *)
PresortedPos(src) == CHOOSE i \in DOMAIN presorted : presorted[i].src = src

(* C4: the list returned by FinalRanker.rank is in non-increasing order    *)
(* of the final (possibly penalized) score.                                *)
C4_SortedByFinalScore ==
    op = "return" =>
        \A i \in 1..(Len(recommendations) - 1) :
            RLe(recommendations[i + 1].score, recommendations[i].score)

(* The diversity pass ran, lowered a score, and the final sort moved       *)
(* a recommendation.                                                       *)
C4_Witness ==
    /\ op = "return"
    /\ Len(recommendations) >= 11
    /\ \E i \in DOMAIN recommendations :
           /\ RLt(recommendations[i].score, WeightedOf(recommendations[i]))
           /\ recommendations[i].src # presorted[i].src

(* C5: every returned score is the weighted sum of its breakdown times     *)
(* 1, 0.9, 0.85 or 0.765, and never exceeds the weighted sum.              *)
C5_PenaltyFactors ==
    op = "return" =>
        \A i \in DOMAIN recommendations :
            LET rec == recommendations[i]
                w == WeightedOf(rec)
            IN  /\ rec.score \in {w, RMul(w, Rat(9, 10)), RMul(w, Rat(85, 100)),
                                  RMul(w, Rat(765, 1000))}
                /\ RLe(rec.score, w)

(* One returned list in which all four factors occur on positive sums.     *)
C5_Witness ==
    /\ op = "return"
    /\ \A f \in {One, Rat(9, 10), Rat(85, 100), Rat(765, 1000)} :
           \E i \in DOMAIN recommendations :
               /\ RLt(Zero, WeightedOf(recommendations[i]))
               /\ recommendations[i].score = RMul(WeightedOf(recommendations[i]), f)

(* C6 as claimed: two recommendations with equal final scores appear in    *)
(* the order of their videos in the input list.                            *)
C6_TiesInInputOrder ==
    op = "return" =>
        \A i, j \in DOMAIN recommendations :
            (i < j /\ recommendations[i].score = recommendations[j].score)
                => recommendations[i].src < recommendations[j].src

(* C6 as amended: two recommendations with equal final scores appear in    *)
(* the order they had after the first sort; that is the input order when   *)
(* their unpenalized scores are equal too, and whenever the list has 10 or *)
(* fewer recommendations.                                                  *)
C6_TiesInPresortedOrder ==
    op = "return" =>
        \A i, j \in DOMAIN recommendations :
            (i < j /\ recommendations[i].score = recommendations[j].score)
                => /\ PresortedPos(recommendations[i].src)
                          < PresortedPos(recommendations[j].src)
                   /\ (\/ WeightedOf(recommendations[i]) = WeightedOf(recommendations[j])
                       \/ Len(recommendations) <= 10)
                          => recommendations[i].src < recommendations[j].src

(* Eleven or more recommendations, two of them tied after the pass lowered *)
(* only the first, whose video came later in the input.                    *)
C6_Witness ==
    /\ op = "return"
    /\ Len(recommendations) >= 11
    /\ \E i, j \in DOMAIN recommendations :
           /\ i < j
           /\ recommendations[i].score = recommendations[j].score
           /\ RLt(recommendations[i].score, WeightedOf(recommendations[i]))
           /\ recommendations[j].score = WeightedOf(recommendations[j])
           /\ recommendations[i].src > recommendations[j].src

(* C8: the returned list holds exactly one recommendation for each input   *)
(* element whose id is present and non-empty, and none for the others.     *)
C8_OnePerIdentifiedVideo ==
    op = "return" =>
        LET identified == {i \in DOMAIN videos :
                              "id" \in DOMAIN videos[i] /\ videos[i].id # << >>}
        IN  /\ Len(recommendations) = Cardinality(identified)
            /\ {recommendations[i].src : i \in DOMAIN recommendations} = identified
            /\ \A i \in DOMAIN recommendations :
                   recommendations[i].video_id = videos[recommendations[i].src].id

(* A list of twelve videos, one of them with an empty id, ranked into      *)
(* eleven recommendations.                                                 *)
C8_Witness ==
    /\ op = "return"
    /\ Len(videos) = 12
    /\ \E i \in DOMAIN videos : "id" \in DOMAIN videos[i] /\ videos[i].id = << >>
    /\ Len(recommendations) = 11

(* A video without the id key is left out as well.                         *)
C8_WitnessNoKey ==
    /\ op = "return"
    /\ \E i \in DOMAIN videos : "id" \notin DOMAIN videos[i]
    /\ Len(recommendations) = Len(videos) - 1

(* C9: a video whose id is absent from virality_scores (relevance_scores)  *)
(* is in the output with virality (relevance) 0.5 in its breakdown.        *)
C9_MissingScoreIsNeutral ==
    op = "return" =>
        \A n \in DOMAIN videos :
            ("id" \in DOMAIN videos[n] /\ videos[n].id # << >>) =>
                \E i \in DOMAIN recommendations :
                    LET rec == recommendations[i]
                    IN  /\ rec.src = n
                        /\ rec.video_id = videos[n].id
                        /\ (rec.video_id \notin DOMAIN virality_scores
                               => rec.scores.virality = Half)
                        /\ (rec.video_id \notin DOMAIN relevance_scores
                               => rec.scores.relevance = Half)

(* A video absent from both maps, ranked among videos that are scored.     *)
C9_Witness ==
    /\ op = "return"
    /\ DOMAIN virality_scores # {}
    /\ \E i \in DOMAIN recommendations :
           /\ recommendations[i].video_id \notin DOMAIN virality_scores
           /\ recommendations[i].video_id \notin DOMAIN relevance_scores
           /\ recommendations[i].scores.virality = Half
           /\ recommendations[i].scores.relevance = Half
    /\ \E i \in DOMAIN recommendations :
           recommendations[i].scores.virality # Half


-----------------------------------------------------------------------------
(* Inputs of FinalRanker.rank for the diversity pass: n videos whose       *)
(* authors, source tags and scores follow a pattern in the index.          *)
AuthorPatterns == {"distinct", "same", "block", "mod3", "none"}
TagPatterns == {"none", "same", "mod2", "distinct"}
DiversityScorePatterns == {"desc", "equal", "asc", "negative"}

DiversityAuthor(i, ap) ==
    IF ap = "same" THEN <<"u", "0">>
    ELSE IF ap = "block" /\ i \in 5..9 THEN <<"u", "x">>
    ELSE IF ap = "mod3" THEN <<"u", Sym(i % 3)>>
    ELSE <<"u", Sym(i)>>

DiversityTag(i, tp) ==
    IF tp = "same" THEN <<"t", "0">>
    ELSE IF tp = "mod2" THEN <<"t", Sym(i % 2)>>
    ELSE <<"t", Sym(i)>>

DiversityVideo(i, ap, tp) ==
    LET all == [id |-> <<"v", Sym(i)>>,
                author |-> DiversityAuthor(i, ap),
                stats |-> [plays |-> 10, likes |-> 1],
                source_tags |-> <<DiversityTag(i, tp)>>]
    IN  Restrict(all, {k \in DOMAIN all : /\ (k = "author" => ap # "none")
                                          /\ (k = "source_tags" => tp # "none")})

DiversityLevel(sp, i) ==
    IF sp = "negative" THEN Rat(-1, 2) ELSE Level(sp, i)

InitDiversity ==
    /\ op = "call"
    /\ \E n \in 0..MaxVideos, ap \in AuthorPatterns, tp \in TagPatterns,
          sp \in DiversityScorePatterns :
           /\ videos = [i \in 1..n |-> DiversityVideo(i, ap, tp)]
           /\ virality_scores =
                  [id \in {<<"v", Sym(i)>> : i \in 1..n} |->
                      DiversityLevel(sp, CHOOSE i \in 1..n : id = <<"v", Sym(i)>>)]
           /\ relevance_scores = virality_scores
    /\ user_data = RankProfile
    /\ presorted = << >>
    /\ recommendations = << >>
    /\ video = << >>
    /\ user_tags = << >>
    /\ embedding = << >>
    /\ result = Zero
    /\ parts = << >>
    /\ tag_mappings = << >>
    /\ content = << >>
    /\ scored_tags = << >>
    /\ BatchIdle
    /\ ApiIdle
    /\ args = << >>

SpecDiversity == InitDiversity /\ [][NextRank]_vars

(* The returned recommendation made from videos[src].                      *)
ReturnedOf(src) ==
    recommendations[CHOOSE j \in DOMAIN recommendations :
                        recommendations[j].src = src]

(* The conditions of the two penalties for the item at 1-based position p  *)
(* of the list after the first sort (0-based position p - 1).              *)
AuthorRepeated(p) ==
    /\ p - 1 >= 4
    /\ \E q \in 1..(p - 1) : presorted[q].author = presorted[p].author

TagsCovered(p) ==
    /\ p - 1 >= 6
    /\ presorted[p].matched_tags # << >>
    /\ \A t \in SeqRange(presorted[p].matched_tags) :
           \E q \in 1..(p - 1) : t \in SeqRange(presorted[q].matched_tags)

(* C18: in the scan over the sorted list of 11 or more recommendations     *)
(* the item at 0-based position i gets the factor 0.9 exactly when i >= 4  *)
(* and an earlier item has its author, and the factor 0.85 exactly when    *)
(* i >= 6, its matched tags are not empty and all occur among the matched  *)
(* tags of earlier items; both factors can apply to one item.              *)
C18_PenaltyConditions ==
    (op = "return" /\ Len(presorted) >= 11) =>
        \A p \in DOMAIN presorted :
            LET f1 == IF AuthorRepeated(p) THEN Rat(9, 10) ELSE One
                f2 == IF TagsCovered(p) THEN Rat(85, 100) ELSE One
            IN  ReturnedOf(presorted[p].src).score =
                    RMul(RMul(presorted[p].score, f1), f2)

(* 12 recommendations where positions 4 to 8 share an author absent from   *)
(* positions 0 to 3: the first of the five keeps its score, each of the    *)
(* four later ones has 0.9 of it; with all tags covered from position 6    *)
(* on, positions 6 to 8 carry both factors.                                *)
C18_Witness ==
    /\ op = "return"
    /\ Len(presorted) = 12
    /\ \A p \in 5..9 : presorted[p].author = <<"u", "x">>
    /\ \A p \in 1..4 : presorted[p].author # <<"u", "x">>
    /\ RLt(Zero, presorted[12].score)
    /\ ReturnedOf(presorted[5].src).score = presorted[5].score
    /\ ReturnedOf(presorted[6].src).score = RMul(presorted[6].score, Rat(9, 10))
    /\ \A p \in 7..9 :
           ReturnedOf(presorted[p].src).score =
               RMul(presorted[p].score, Rat(765, 1000))
    /\ ReturnedOf(presorted[10].src).score =
           RMul(presorted[10].score, Rat(85, 100))

(* Descending by score, equal scores in the order of the input list.       *)
StableDescending(list) ==
    \A a, b \in DOMAIN list :
        a < b => \/ RLt(list[b].score, list[a].score)
                 \/ /\ list[b].score = list[a].score
                    /\ list[a].src < list[b].src

(* C19: with 10 or fewer recommendations the diversity pass changes        *)
(* nothing: every score is the unpenalized weighted sum and the order is   *)
(* the stable descending sort of those sums, whatever the authors and      *)
(* tags; with exactly 11 recommendations the pass runs.                    *)
C19_SkippedUpToTen ==
    op = "return" =>
        /\ Len(recommendations) <= 10 =>
               /\ recommendations = presorted
               /\ \A j \in DOMAIN recommendations :
                      recommendations[j].score = WeightedOf(recommendations[j])
               /\ StableDescending(recommendations)
        /\ Len(recommendations) = 11 =>
               \A p \in DOMAIN presorted :
                   (AuthorRepeated(p) \/ TagsCovered(p)) =>
                       ReturnedOf(presorted[p].src).score # presorted[p].score

(* Exactly 10 recommendations of one author with one tag, positive scores. *)
C19_Witness ==
    /\ op = "return"
    /\ Len(recommendations) = 10
    /\ \A j \in DOMAIN recommendations :
           /\ recommendations[j].author = <<"u", "0">>
           /\ recommendations[j].matched_tags = <<<<"t", "0">>>>
           /\ RLt(Zero, recommendations[j].score)

(* Exactly 11 recommendations of one author: the pass lowered a score.     *)
C19_WitnessEleven ==
    /\ op = "return"
    /\ Len(recommendations) = 11
    /\ \E j \in DOMAIN recommendations :
           /\ recommendations[j].author = <<"u", "0">>
           /\ RLt(recommendations[j].score, WeightedOf(recommendations[j]))

(* C20: when all weighted scores are non-negative the first four           *)
(* recommendations returned are the first four of the stable descending    *)
(* sort by unpenalized score, in the same order and with unpenalized       *)
(* scores, for any number of recommendations, authors and tags.            *)
C20_TopFourKept ==
    (op = "return" /\ \A p \in DOMAIN presorted : RLe(Zero, WeightedOf(presorted[p])))
        => /\ Len(recommendations) = Len(presorted)
           /\ StableDescending([p \in DOMAIN presorted |->
                                   [score |-> WeightedOf(presorted[p]),
                                    src |-> presorted[p].src]])
           /\ \A j \in 1..Min(4, Len(presorted)) :
                  /\ recommendations[j] = presorted[j]
                  /\ recommendations[j].score = WeightedOf(recommendations[j])

(* 12 recommendations with equal positive scores and one author: every     *)
(* item from the fifth on is penalized and the first four stay in place.   *)
C20_Witness ==
    /\ op = "return"
    /\ Len(recommendations) = 12
    /\ \A p \in DOMAIN presorted : presorted[p].score = presorted[1].score
    /\ RLt(Zero, presorted[1].score)
    /\ \A j \in 5..12 :
           RLt(recommendations[j].score, WeightedOf(recommendations[j]))
    /\ \A j \in 1..4 : recommendations[j].src = j

-----------------------------------------------------------------------------
(* The scoring steps of RecommendationPipeline.run (lines 73-91):          *)
(* ViralityScorer.score_batch, RelevanceScorer.score_batch and             *)
(* FinalRanker.rank on the same video list.                                *)
(*                                                                         *)
(* The calls receive references.  An assignment through a reference is a   *)
(* write [object, key, value], where object is the identity of the dict    *)
(* written; what an object holds after a call is its value with the        *)
(* call's writes to its identity applied in order.                         *)

(* dict[key] = value                                                       *)
store(d, k, x) == [j \in DOMAIN d \cup {k} |-> IF j = k THEN x ELSE d[j]]

RECURSIVE ObjectAfter(_, _, _)
ObjectAfter(object, value, writes) ==
    IF writes = << >> THEN value
    ELSE LET w == Head(writes)
         IN  ObjectAfter(object,
                         IF w.object = object THEN store(value, w.key, w.value)
                                              ELSE value,
                         Tail(writes))

(* The identities of the objects passed in, and of the dicts the calls     *)
(* create.                                                                 *)
video_object(i) == [kind |-> "video", index |-> i]
tags_object == [kind |-> "user_tags", index |-> 0]
profile_object == [kind |-> "user_profile", index |-> 0]
virality_scores_object == [kind |-> "scores", index |-> 1]
relevance_scores_object == [kind |-> "scores", index |-> 2]

(* The recommendation is the video dict itself, not a new dict.            *)
recommendation_object_shared(i) == [kind |-> "video", index |-> i]

(* The dict literal of final_ranker.py line 53, made for videos[i].        *)
recommendation_object(i) == [kind |-> "recommendation", index |-> i]

videos_after(vs, writes) ==
    [i \in DOMAIN vs |-> ObjectAfter(video_object(i), vs[i], writes)]

(* ViralityScorer.score_batch: scores[video_id] = self.score_single(video) *)
RECURSIVE virality_batch_writes(_, _)
virality_batch_writes(vs, n) ==
    IF n = 0 THEN << >>
    ELSE virality_batch_writes(vs, n - 1) \o
         (IF has_id(vs[n])
              THEN <<[object |-> virality_scores_object, key |-> vs[n].id,
                      value |-> virality_score_single(vs[n], Now)]>>
              ELSE << >>)

(* RelevanceScorer.score_batch, one iteration of the loop of line 35.      *)
relevance_video_writes(v, tags, user_embedding, env) ==
    IF has_id(v)
        THEN <<[object |-> relevance_scores_object, key |-> v.id,
                value |-> relevance_score_single(v, tags, user_embedding, env)]>>
        ELSE << >>

(* rec['score'] *= ... in the scan of _apply_diversity_boost: the scores   *)
(* the scan left changed, written to the scanned recommendations.          *)
RECURSIVE scan_score_writes(_, _, _)
scan_score_writes(pre, scanned, n) ==
    IF n = 0 THEN << >>
    ELSE scan_score_writes(pre, scanned, n - 1) \o
         (IF scanned[n].score # pre[n].score
              THEN <<[object |-> recommendation_object(scanned[n].src),
                      key |-> "score", value |-> scanned[n].score]>>
              ELSE << >>)

rank_writes(pre) ==
    IF Len(pre) <= 10 THEN << >>
    ELSE scan_score_writes(pre, diversity_scan(pre, Len(pre)).diverse_recs, Len(pre))

(* The calls of EmbeddingGenerator.generate made by score_batch: one for   *)
(* the user text (line 113, reached when the tag list is not empty) and    *)
(* one for a video's text (line 67, reached when the user embedding is     *)
(* not None).                                                              *)
user_requests(tags) ==
    IF tags = << >> THEN << >> ELSE <<[text |-> "user", index |-> 0]>>

(* The user embedding asked for again with every video.                    *)
video_requests_with_user(i, user_embedding) ==
    <<[text |-> "user", index |-> i], [text |-> "video", index |-> i]>>

video_requests(i, user_embedding) ==
    IF user_embedding # None THEN <<[text |-> "video", index |-> i]>> ELSE << >>

(* Inputs of the batch calls.                                              *)
S_t1 == <<"t", "1">>
BatchSizes == {0, 2, MaxVideos - 1}
BatchProbeKinds == {"noid", "emptyid", "unscored", "dupid"}
BatchTagLists ==
    {<< >>,
     RankProfile.tags,
     <<[tag |-> S_t1, affinity |-> Rat(9, 10), reason |-> S_reason],
       [tag |-> S_dance, affinity |-> Half]>>}
BatchEnvs == {e \in EmbeddingEnvs : ~e.direct}

InitBatch ==
    /\ op = "call"
    /\ \E n \in BatchSizes, am \in {1, 16}, tm \in {0, 2}, k \in {0, 2},
          kind \in BatchProbeKinds :
           /\ k <= n + 1
           /\ (k = 0 => kind = "noid")
           /\ videos = BuildVideos(n, am, tm, k, kind)
    /\ user_tags \in BatchTagLists
    /\ user_data = [username |-> S_ann, tags |-> user_tags]
    /\ embedding \in BatchEnvs
    /\ virality_scores = << >>
    /\ relevance_scores = << >>
    /\ presorted = << >>
    /\ recommendations = << >>
    /\ video = << >>
    /\ result = Zero
    /\ parts = << >>
    /\ tag_mappings = << >>
    /\ content = << >>
    /\ scored_tags = << >>
    /\ BatchIdle
    /\ ApiIdle
    /\ args = << >>

(* What the arguments hold after a call that made the given writes.        *)
InputsAfter(writes) ==
    /\ videos' = videos_after(videos, writes)
    /\ user_tags' = ObjectAfter(tags_object, user_tags, writes)
    /\ user_data' = ObjectAfter(profile_object, user_data, writes)

(* virality_scores = self.virality_scorer.score_batch(all_videos)          *)
ViralityScoreBatch ==
    /\ op = "call"
    /\ op' = "virality_scored"
    /\ LET writes == virality_batch_writes(videos, Len(videos))
       IN  /\ virality_scores' = ObjectAfter(virality_scores_object, << >>, writes)
           /\ InputsAfter(writes)
    /\ UNCHANGED <<video, embedding, result, parts, tag_mappings, content,
                   scored_tags, relevance_scores, presorted, recommendations>>
    /\ UNCHANGED batch_vars
    /\ UNCHANGED api_vars
    /\ UNCHANGED args

(* RelevanceScorer.score_batch, lines 30-33.                               *)
RelevanceBatchBegin ==
    /\ op = "virality_scored"
    /\ op' = "relevance_loop"
    /\ locals' = [scores |-> << >>,
                  user_embedding |-> create_user_embedding(user_tags, embedding),
                  index |-> 1]
    /\ generate_log' = generate_log \o user_requests(user_tags)
    /\ InputsAfter(<< >>)
    /\ UNCHANGED <<video, embedding, result, parts, tag_mappings, content,
                   scored_tags, virality_scores, relevance_scores, presorted,
                   recommendations>>
    /\ UNCHANGED api_vars
    /\ UNCHANGED args

(* RelevanceScorer.score_batch, lines 35-38 for one video.                 *)
RelevanceBatchVideo ==
    /\ op = "relevance_loop"
    /\ locals.index <= Len(videos)
    /\ LET i == locals.index
           writes == relevance_video_writes(videos[i], user_tags,
                                            locals.user_embedding, embedding)
       IN  /\ locals' = [locals EXCEPT
                            !.scores = ObjectAfter(relevance_scores_object, @, writes),
                            !.index = i + 1]
           /\ generate_log' =
                  generate_log \o
                  (IF has_id(videos[i]) THEN video_requests(i, locals.user_embedding)
                                        ELSE << >>)
           /\ InputsAfter(writes)
    /\ UNCHANGED <<op, video, embedding, result, parts, tag_mappings, content,
                   scored_tags, virality_scores, relevance_scores, presorted,
                   recommendations>>
    /\ UNCHANGED api_vars
    /\ UNCHANGED args

(* RelevanceScorer.score_batch, line 40.                                   *)
RelevanceBatchReturn ==
    /\ op = "relevance_loop"
    /\ locals.index > Len(videos)
    /\ op' = "relevance_scored"
    /\ relevance_scores' = locals.scores
    /\ InputsAfter(<< >>)
    /\ UNCHANGED <<video, embedding, result, parts, tag_mappings, content,
                   scored_tags, virality_scores, presorted, recommendations>>
    /\ UNCHANGED batch_vars
    /\ UNCHANGED api_vars
    /\ UNCHANGED args

(* recommendations = self.final_ranker.rank(...)                           *)
RankBatch ==
    /\ op = "relevance_scored"
    /\ op' = "return"
    /\ presorted' = first_sort(videos, virality_scores, relevance_scores, user_data)
    /\ recommendations' = apply_diversity_boost(presorted')
    /\ LET writes == rank_writes(presorted')
       IN  /\ InputsAfter(writes)
           /\ virality_scores' =
                  ObjectAfter(virality_scores_object, virality_scores, writes)
           /\ relevance_scores' =
                  ObjectAfter(relevance_scores_object, relevance_scores, writes)
    /\ UNCHANGED <<video, embedding, result, parts, tag_mappings, content,
                   scored_tags>>
    /\ UNCHANGED batch_vars
    /\ UNCHANGED api_vars
    /\ UNCHANGED args

NextBatch ==
    \/ ViralityScoreBatch
    \/ RelevanceBatchBegin
    \/ RelevanceBatchVideo
    \/ RelevanceBatchReturn
    \/ RankBatch

SpecBatch == InitBatch /\ [][NextBatch]_vars

(* C13: the three calls leave their arguments as they were: no step        *)
(* changes a video record, the user tag list or the user profile, and      *)
(* FinalRanker.rank changes neither score map.                             *)
C13_InputsUnchanged ==
    [][/\ videos' = videos
       /\ user_tags' = user_tags
       /\ user_data' = user_data
       /\ op = "relevance_scored" => /\ virality_scores' = virality_scores
                                     /\ relevance_scores' = relevance_scores]_vars

(* The three calls have returned for eleven or more scored videos with     *)
(* statistics, and the diversity pass lowered a recommendation's score.    *)
C13_Witness ==
    /\ op = "return"
    /\ Len(videos) >= 11
    /\ \E i \in DOMAIN videos : "stats" \in DOMAIN videos[i]
    /\ DOMAIN virality_scores # {}
    /\ DOMAIN relevance_scores # {}
    /\ user_tags # << >>
    /\ \E j \in DOMAIN recommendations :
           RLt(recommendations[j].score, WeightedOf(recommendations[j]))

(* C14: in one RelevanceScorer.score_batch call the user embedding is      *)
(* requested at most once, exactly once when the tag list is not empty,    *)
(* before any video is scored; every other request is for one video's      *)
(* text, at most one per video; the embedding obtained is the one every    *)
(* video is scored with.                                                   *)
C14_UserEmbeddingOnce ==
    LET user_calls == {j \in DOMAIN generate_log : generate_log[j].text = "user"}
    IN  /\ Cardinality(user_calls) <= 1
        /\ user_calls \subseteq {1}
        /\ (op \in {"relevance_loop", "relevance_scored", "return"}) =>
               /\ (user_tags # << >>) <=> (user_calls = {1})
               /\ user_calls = {1} => generate_log[1].index = 0
               /\ locals.user_embedding = create_user_embedding(user_tags, embedding)
        /\ \A j \in DOMAIN generate_log \ user_calls :
               /\ generate_log[j].text = "video"
               /\ generate_log[j].index \in DOMAIN videos
               /\ generate_log[j].index < locals.index
               /\ \A m \in DOMAIN generate_log :
                      generate_log[m] = generate_log[j] => m = j

(* score_batch has returned after one request for the user text followed   *)
(* by one request for each of eleven or more videos.                       *)
C14_Witness ==
    /\ op = "relevance_scored"
    /\ Len(generate_log) >= 12
    /\ generate_log[1].text = "user"
    /\ locals.user_embedding = Vector
    /\ Cardinality(DOMAIN relevance_scores) >= 11

(* The user text was requested and nothing came back: no video text is     *)
(* requested.                                                              *)
C14_WitnessNoEmbedding ==
    /\ op = "relevance_scored"
    /\ user_tags # << >>
    /\ embedding.user_fails
    /\ Len(videos) >= 2
    /\ generate_log = <<[text |-> "user", index |-> 0]>>

-----------------------------------------------------------------------------
(* C15: the influence factor is a step function of follower_count with     *)
(* exact boundaries: below 1000 gives 0.8, 1000 to 9999 gives 0.9, 10000   *)
(* to 99999 gives 1.0, 100000 to 999999 gives 1.1, 1000000 and above gives *)
(* 1.2; a missing follower_count counts as 0 and gives 0.8.                *)
C15_InfluenceSteps ==
    op = "return" =>
        LET f == parts.influence_factor
            present == "follower_count" \in DOMAIN user_data
            n == IF present THEN user_data.follower_count ELSE 0
        IN  /\ ~present => f = Rat(8, 10)
            /\ n \in {0, 999} => f = Rat(8, 10)
            /\ n \in {1000, 9999} => f = Rat(9, 10)
            /\ n \in {10000, 99999} => f = One
            /\ n \in {100000, 999999} => f = Rat(11, 10)
            /\ n >= 1000000 => f = Rat(12, 10)
            /\ f \in {Rat(8, 10), Rat(9, 10), One, Rat(11, 10), Rat(12, 10)}

(* The score call has returned for a user with exactly 1000 followers.     *)
C15_Witness ==
    /\ op = "return"
    /\ "follower_count" \in DOMAIN user_data
    /\ user_data.follower_count = 1000
    /\ parts.influence_factor = Rat(9, 10)
    /\ tag_mappings # << >>

(* The score call has returned for a user without a follower_count.        *)
C15_WitnessMissing ==
    /\ op = "return"
    /\ "follower_count" \notin DOMAIN user_data
    /\ parts.influence_factor = Rat(8, 10)

-----------------------------------------------------------------------------
(* TikTokAPIClient (src/core/api_client.py): search_videos over            *)
(* _make_request and _rate_limit.  Time is counted in ticks; it passes     *)
(* while the client sleeps, while a request is on the network, while       *)
(* tenacity waits before a retry, and between two calls of the client.     *)
TicksPerSecond == 2
rate_limit_delay == 1 * TicksPerSecond
max_api_retries == 3
(* wait_exponential(multiplier=1, min=2, max=10): 2 s after the first and  *)
(* after the second attempt                                                *)
retry_wait == 2 * TicksPerSecond
StartTime == 10 * TicksPerSecond

(* _rate_limit without the sleep.                                          *)
sleep_time_none(elapsed) == 0

(* The argument of time.sleep in _rate_limit (0: no sleep).                *)
sleep_time(elapsed) ==
    IF elapsed < rate_limit_delay THEN rate_limit_delay - elapsed ELSE 0

(* f"{endpoint}:{json.dumps(params, sort_keys=True)}" for the params of    *)
(* search_videos                                                           *)
cache_key(s) ==
    [endpoint |-> "search/video", keyword |-> s.keyword, cursor |-> s.cursor,
     search_id |-> s.search_id, count |-> Min(20, s.count - Len(s.videos))]

(* self.cache and cached_data both truthy (lines 41-43)                    *)
cache_hit(c, key) ==
    c.cache_enabled /\ key \in DOMAIN c.cache /\ c.cache[key] # << >>

(* response.data.get("item_list", response.data.get("itemList", []))       *)
items_of(data) == Get(data, "item_list", Get(data, "itemList", << >>))

(* response.data.get("has_more", response.data.get("hasMore"))             *)
has_more_of(data) == Get(data, "has_more", Get(data, "hasMore", FALSE))

(* search_videos returning the whole list.                                 *)
search_return_all(found, count) == found

(* videos[:count]                                                          *)
search_return(found, count) == Take(found, count)

(* Lines 202-217 for one response, then the loop test of line 191 and,     *)
(* when the loop ends, line 219.                                           *)
handle_response(s, response) ==
    LET seen == [s EXCEPT !.pages = Append(@, response), !.attempt = 1]
        data == response.data
        item_list == items_of(data)
        extended == [seen EXCEPT !.videos = @ \o item_list]
        next ==
            IF response.status_code # 200 \/ data = << >>
                THEN [seen EXCEPT !.running = FALSE]
            ELSE IF item_list = << >> THEN [seen EXCEPT !.running = FALSE]
            ELSE IF ~has_more_of(data) THEN [extended EXCEPT !.running = FALSE]
            ELSE [extended EXCEPT
                     !.cursor = Get(data, "cursor", @),
                     !.search_id = Get(Get(data, "log_pb", << >>), "impr_id", @),
                     !.running = Len(extended.videos) < s.count]
    IN  IF next.running THEN next
        ELSE [next EXCEPT !.returned = search_return(next.videos, next.count)]

(* What requests.get answers: status code and JSON body.                   *)
Pages ==
    {[status_code |-> 200,
      json |-> [item_list |-> <<"a", "b">>, has_more |-> TRUE, cursor |-> "2",
                log_pb |-> [impr_id |-> "s1"]]],
     [status_code |-> 200, json |-> [itemList |-> <<"c">>, hasMore |-> TRUE]],
     [status_code |-> 200,
      json |-> [item_list |-> <<"d">>, has_more |-> FALSE, cursor |-> "9"]],
     [status_code |-> 200, json |-> [item_list |-> << >>, has_more |-> TRUE]],
     [status_code |-> 200, json |-> << >>],
     [status_code |-> 404, json |-> << >>]}

Keywords == {"dance"}
Latencies == {1}
Pauses == {0, rate_limit_delay}
MaxCount == 2
MaxSearches == 2

(* The locals of search_videos before its first call.                      *)
NoSearch ==
    [number |-> 0, keyword |-> "", count |-> 0, videos |-> << >>,
     cursor |-> "0", search_id |-> "0", pages |-> << >>, attempt |-> 1,
     running |-> FALSE, returned |-> << >>]

InitApi ==
    /\ op = "idle"
    /\ \E enable_cache \in BOOLEAN :
           api_client = [last_request_time |-> 0, cache_enabled |-> enable_cache,
                         cache |-> << >>]
    /\ clock = StartTime
    /\ search = NoSearch
    /\ request_log = << >>
    /\ video = << >>
    /\ user_tags = << >>
    /\ embedding = << >>
    /\ result = Zero
    /\ parts = << >>
    /\ tag_mappings = << >>
    /\ user_data = << >>
    /\ content = << >>
    /\ scored_tags = << >>
    /\ videos = << >>
    /\ virality_scores = << >>
    /\ relevance_scores = << >>
    /\ presorted = << >>
    /\ recommendations = << >>
    /\ BatchIdle
    /\ args = << >>

scoring_vars ==
    <<video, user_tags, embedding, result, parts, tag_mappings, user_data,
      content, scored_tags, videos, virality_scores, relevance_scores,
      presorted, recommendations, args>>

(* search_videos is called (lines 187-191), some time after the last call. *)
SearchVideos ==
    /\ op \in {"idle", "returned", "raised"}
    /\ search.number < MaxSearches
    /\ \E keyword \in Keywords, count \in 0..MaxCount, pause \in Pauses :
           /\ clock' = clock + pause
           /\ search' = [NoSearch EXCEPT !.number = search.number + 1,
                                         !.keyword = keyword, !.count = count,
                                         !.running = 0 < count]
           /\ op' = IF 0 < count THEN "make_request" ELSE "returned"
    /\ UNCHANGED <<api_client, request_log>>
    /\ UNCHANGED scoring_vars
    /\ UNCHANGED batch_vars

(* _make_request, lines 40-48: the answer is in the cache.                 *)
CachedAnswer ==
    /\ op = "make_request"
    /\ cache_hit(api_client, cache_key(search))
    /\ LET response == [status_code |-> 200,
                        data |-> api_client.cache[cache_key(search)]]
       IN  /\ search' = handle_response(search, response)
           /\ op' = IF search'.running THEN "make_request" ELSE "returned"
    /\ request_log' = Append(request_log,
                             [event |-> "cached", began |-> clock, time |-> clock,
                              last_before |-> api_client.last_request_time,
                              last_after |-> api_client.last_request_time])
    /\ UNCHANGED <<api_client, clock>>
    /\ UNCHANGED scoring_vars
    /\ UNCHANGED batch_vars

(* _make_request, line 51: _rate_limit (lines 28-31).                      *)
RateLimit ==
    /\ op = "make_request"
    /\ ~cache_hit(api_client, cache_key(search))
    /\ op' = "rate_limited"
    /\ clock' = clock + sleep_time(clock - api_client.last_request_time)
    /\ api_client' = [api_client EXCEPT !.last_request_time = clock']
    /\ request_log' = Append(request_log,
                             [event |-> "rate_limit", began |-> clock,
                              time |-> clock',
                              last_before |-> api_client.last_request_time,
                              last_after |-> clock'])
    /\ UNCHANGED search
    /\ UNCHANGED scoring_vars
    /\ UNCHANGED batch_vars

(* _make_request, lines 54-78: requests.get answers.                       *)
Request ==
    /\ op = "rate_limited"
    /\ \E page \in Pages, latency \in Latencies :
           LET ok == page.status_code = 200
               response == [status_code |-> page.status_code,
                            data |-> IF ok THEN page.json ELSE << >>]
           IN  /\ clock' = clock + latency
               /\ api_client' =
                      IF ok /\ api_client.cache_enabled
                          THEN [api_client EXCEPT
                                   !.cache = store(@, cache_key(search), page.json)]
                          ELSE api_client
               /\ search' = handle_response(search, response)
               /\ op' = IF search'.running THEN "make_request" ELSE "returned"
    /\ request_log' = Append(request_log,
                             [event |-> "request", began |-> clock, time |-> clock,
                              last_before |-> api_client.last_request_time,
                              last_after |-> api_client.last_request_time])
    /\ UNCHANGED scoring_vars
    /\ UNCHANGED batch_vars

(* requests.get raises (timeout, connection error): tenacity waits and     *)
(* calls _make_request again, or gives up after max_api_retries attempts   *)
(* and search_videos propagates the error.                                 *)
RequestRaises ==
    /\ op = "rate_limited"
    /\ \E latency \in Latencies :
           IF search.attempt < max_api_retries
               THEN /\ clock' = clock + latency + retry_wait
                    /\ search' = [search EXCEPT !.attempt = @ + 1]
                    /\ op' = "make_request"
               ELSE /\ clock' = clock + latency
                    /\ search' = [search EXCEPT !.running = FALSE]
                    /\ op' = "raised"
    /\ request_log' = Append(request_log,
                             [event |-> "request", began |-> clock, time |-> clock,
                              last_before |-> api_client.last_request_time,
                              last_after |-> api_client.last_request_time])
    /\ UNCHANGED api_client
    /\ UNCHANGED scoring_vars
    /\ UNCHANGED batch_vars

NextApi ==
    \/ SearchVideos
    \/ CachedAnswer
    \/ RateLimit
    \/ Request
    \/ RequestRaises

SpecApi == InitApi /\ [][NextApi]_vars

-----------------------------------------------------------------------------
(* The items of a sequence of responses, in order.                         *)
RECURSIVE received_items(_)
received_items(pages) ==
    IF pages = << >> THEN << >>
    ELSE items_of(Head(pages).data) \o received_items(Tail(pages))

(* A response after which search_videos asks for no further page.          *)
StopsSearch(response) ==
    \/ response.status_code # 200
    \/ response.data = << >>
    \/ items_of(response.data) = << >>
    \/ ~has_more_of(response.data)

(* C16: search_videos(keyword, count) returns at most count items: the     *)
(* concatenation, in request order, of the item lists of the successive    *)
(* result pages, truncated to the first count items; no page is requested  *)
(* after a page that is a non-200 response, is empty or reports no more    *)
(* results, nor once count items are collected.                            *)
C16_SearchPagination ==
    op = "returned" =>
        LET pages == search.pages
            all == received_items(pages)
        IN  /\ Len(search.returned) <= search.count
            /\ search.returned = SubSeq(all, 1, Min(search.count, Len(all)))
            /\ \A j \in 1..(Len(pages) - 1) :
                   /\ ~StopsSearch(pages[j])
                   /\ Len(received_items(SubSeq(pages, 1, j))) < search.count
            /\ pages # << >> =>
                   \/ StopsSearch(pages[Len(pages)])
                   \/ Len(all) >= search.count
            /\ (pages = << >>) <=> (search.count = 0)

(* A search for 2 items that received a page of one item and then a page   *)
(* of two, and returned the first two of the three.                        *)
C16_Witness ==
    /\ op = "returned"
    /\ search.count = 2
    /\ Len(search.pages) = 2
    /\ Len(received_items(search.pages)) = 3
    /\ search.returned = <<"c", "a">>

(* A search whose first page was a non-200 response returned nothing.      *)
C16_WitnessError ==
    /\ op = "returned"
    /\ search.count = 2
    /\ Len(search.pages) = 1
    /\ search.pages[1].status_code = 404
    /\ search.returned = << >>

(* C17: two completions of _rate_limit of one client are at least          *)
(* rate_limit_delay apart, and so are the starts of two network requests;  *)
(* a request answered from the cache takes no time and leaves              *)
(* last_request_time as it was.                                            *)
C17_RateLimitSpacing ==
    /\ \A i, j \in DOMAIN request_log :
           (i < j /\ request_log[i].event = request_log[j].event
                  /\ request_log[i].event \in {"rate_limit", "request"})
               => request_log[j].time - request_log[i].time >= rate_limit_delay
    /\ \A i \in DOMAIN request_log :
           request_log[i].event = "cached" =>
               /\ request_log[i].time = request_log[i].began
               /\ request_log[i].last_after = request_log[i].last_before
               /\ i < Len(request_log) =>
                      request_log[i + 1].last_before = request_log[i].last_before

(* _rate_limit slept before the second of two network requests, which      *)
(* started exactly rate_limit_delay after the first, and a later request   *)
(* was answered from the cache.                                            *)
C17_Witness ==
    \E i, j, k \in DOMAIN request_log :
        /\ i < j /\ j < k
        /\ request_log[i].event = "request"
        /\ request_log[j].event = "request"
        /\ request_log[j].time - request_log[i].time = rate_limit_delay
        /\ request_log[j - 1].event = "rate_limit"
        /\ request_log[j - 1].time > request_log[j - 1].began
        /\ request_log[k].event = "cached"

-----------------------------------------------------------------------------
(* C11: with an empty user tag list the tag_match component is 0 (the zero *)
(* normalizer is not divided by), the source-tag boost is 0 and the        *)
(* relevance of the video equals 0.4 * embedding_score.                    *)
C11_EmptyTagsEmbeddingOnly ==
    (op = "return" /\ user_tags = << >>)
        => /\ parts.tag_match_score = Zero
           /\ parts.source_tag_boost = Zero
           /\ result = RMul(Rat(4, 10), parts.embedding_score)

(* A batch call with no user tags for a video that has a description,      *)
(* hashtags and source tags, with a working provider: the result is 0.2.   *)
C11_Witness ==
    /\ op = "return"
    /\ user_tags = << >>
    /\ embedding.client
    /\ ~embedding.direct
    /\ Get(video, "source_tags", << >>) # << >>
    /\ Get(video, "hashtags", << >>) # << >>
    /\ result = Rat(2, 10)

(* C12: for a video with plays = 0 or no plays counter, whatever its       *)
(* likes, comments and shares, the play sub-score and the engagement-rate  *)
(* sub-score are 0 and the virality is 0.2*share_score + 0.2*time_factor.  *)
C12_ZeroPlays ==
    (op = "return" /\ StatOf(video, "plays") = 0)
        => /\ parts.play_score = Zero
           /\ parts.engagement_rate = Zero
           /\ parts.engagement_score = Zero
           /\ result = RAdd(RMul(Rat(2, 10), parts.share_score),
                            RMul(Rat(2, 10), parts.time_factor))

(* plays = 0 is present with the largest likes and shares and a fresh      *)
(* create_time, so that both remaining sub-scores are 1.                   *)
C12_Witness ==
    /\ op = "return"
    /\ "stats" \in DOMAIN video
    /\ "plays" \in DOMAIN video.stats
    /\ video.stats.plays = 0
    /\ StatOf(video, "likes") = 6000000
    /\ parts.share_score = One
    /\ parts.time_factor = One
    /\ result = Rat(4, 10)

(* The plays counter is absent while likes, comments and shares are        *)
(* positive.                                                               *)
C12_WitnessNoCounter ==
    /\ op = "return"
    /\ "stats" \in DOMAIN video
    /\ "plays" \notin DOMAIN video.stats
    /\ StatOf(video, "likes") > 0
    /\ StatOf(video, "comments") > 0
    /\ StatOf(video, "shares") > 0
    /\ RLt(Zero, result)

-----------------------------------------------------------------------------
(* Helper methods called on their own.  args holds the method name and its *)
(* arguments; the action of the method leaves what it returns in result.   *)
HelperCall(arg_set) ==
    /\ op = "call"
    /\ args \in arg_set
    /\ video = << >>
    /\ user_tags = << >>
    /\ embedding = << >>
    /\ result = Zero
    /\ parts = << >>
    /\ tag_mappings = << >>
    /\ user_data = << >>
    /\ content = << >>
    /\ scored_tags = << >>
    /\ videos = << >>
    /\ virality_scores = << >>
    /\ relevance_scores = << >>
    /\ presorted = << >>
    /\ recommendations = << >>
    /\ BatchIdle
    /\ ApiIdle

HelperReturn(method, value) ==
    /\ op = "call"
    /\ args.method = method
    /\ op' = "return"
    /\ result' = value
    /\ UNCHANGED <<video, user_tags, embedding, parts, tag_mappings, user_data,
                   content, scored_tags, videos, virality_scores,
                   relevance_scores, presorted, recommendations, args>>
    /\ UNCHANGED batch_vars
    /\ UNCHANGED api_vars

(* a/b <= c/d for a, c >= 0 and b, d > 0, by whole parts and then by the   *)
(* reciprocals of the remainders, so that no product is formed.            *)
RECURSIVE FracLe(_, _, _, _)
FracLe(a, b, c, d) ==
    IF a \div b # c \div d THEN a \div b < c \div d
    ELSE IF a % b = 0 THEN TRUE
    ELSE IF c % d = 0 THEN FALSE
    ELSE FracLe(d, c % d, b, a % b)

Leq(x, y) == FracLe(x[1], x[2], y[1], y[2])

-----------------------------------------------------------------------------
(* The three normalizers of the virality scorer: the arguments are the     *)
(* breakpoints of every segment, their neighbours on both sides, and       *)
(* points inside and beyond the segments.                                  *)
PlayArgs ==
    {0, 1, 5000, 9999, 10000, 10001, 55000, 99999, 100000, 100001, 550000,
     999999, 1000000, 1000001, 5500000, 9999999, 10000000, 10000001,
     20000000, 200000000}
ShareArgs ==
    {0, 1, 50, 99, 100, 101, 550, 999, 1000, 1001, 5500, 9999, 10000, 10001,
     55000, 99999, 100000, 100001, 200000, 2000000}
RateArgs ==
    {Rat(n, 1000) : n \in {0, 5, 9, 10, 11, 30, 49, 50, 51, 75, 99, 100, 101,
                           150, 199, 200, 201, 225, 249, 250, 251, 300, 1000,
                           3000}}

NormalizeArgs ==
    [method : {"_normalize_plays"}, x : PlayArgs] \cup
    [method : {"_normalize_shares"}, x : ShareArgs] \cup
    [method : {"_normalize_engagement_rate"}, x : RateArgs]

InitNormalize == HelperCall(NormalizeArgs)

NormalizePlays == HelperReturn("_normalize_plays", normalize_plays(args.x))

NormalizeEngagementRate ==
    HelperReturn("_normalize_engagement_rate", normalize_engagement_rate(args.x))

NormalizeShares == HelperReturn("_normalize_shares", normalize_shares(args.x))

NextNormalize == NormalizePlays \/ NormalizeEngagementRate \/ NormalizeShares

SpecNormalize == InitNormalize /\ [][NextNormalize]_vars

Returned(method) == op = "return" /\ args.method = method

(* C21: the count normalizers take the anchored value at every breakpoint: *)
(* plays 10,000 -> 0.3, 100,000 -> 0.6, 1,000,000 -> 0.8 and               *)
(* 10,000,000 -> 0.95; shares 100 -> 0.3, 1,000 -> 0.6, 10,000 -> 0.85 and *)
(* 100,000 -> 0.95.                                                        *)
C21_BreakpointValues ==
    /\ Returned("_normalize_plays") =>
           /\ (args.x = 10000 => result = Rat(3, 10))
           /\ (args.x = 100000 => result = Rat(6, 10))
           /\ (args.x = 1000000 => result = Rat(8, 10))
           /\ (args.x = 10000000 => result = Rat(95, 100))
    /\ Returned("_normalize_shares") =>
           /\ (args.x = 100 => result = Rat(3, 10))
           /\ (args.x = 1000 => result = Rat(6, 10))
           /\ (args.x = 10000 => result = Rat(85, 100))
           /\ (args.x = 100000 => result = Rat(95, 100))

(* The sub-scores the other two normalizers and the time decay can give,   *)
(* against which one normalizer's contribution is weighed.                 *)
SubScores == {Zero, Rat(3, 10), Rat(85, 100), One}

SameMethodArgs == {a \in NormalizeArgs : a.method = args.method}

ArgLe(x, y) == IF args.method = "_normalize_engagement_rate" THEN RLe(x, y) ELSE x <= y

Normalized(a) ==
    IF a.method = "_normalize_plays" THEN normalize_plays(a.x)
    ELSE IF a.method = "_normalize_shares" THEN normalize_shares(a.x)
    ELSE normalize_engagement_rate(a.x)

Combined(method, score, o1, o2, tf) ==
    IF method = "_normalize_plays" THEN virality_combine(score, o1, o2, tf)
    ELSE IF method = "_normalize_shares" THEN virality_combine(o1, o2, score, tf)
    ELSE virality_combine(o1, score, o2, tf)

(* C22: each normalizer returns a value of [0, 1] and returns no less for  *)
(* a larger argument, also when the two arguments lie in different         *)
(* segments; so the weighted virality is no less for a larger play count,  *)
(* engagement rate or share count, the other sub-scores being the same.    *)
C22_NormalizersMonotone ==
    op = "return" =>
        /\ IsUnit(result)
        /\ \A b \in SameMethodArgs :
               ArgLe(args.x, b.x) =>
                   /\ Leq(result, Normalized(b))
                   /\ \A o1, o2, tf \in SubScores :
                          Leq(Combined(args.method, result, o1, o2, tf),
                              Combined(args.method, Normalized(b), o1, o2, tf))

(* The call just below the last breakpoint of the plays normalizer, whose  *)
(* result is less than that of the call at the breakpoint.                 *)
C22_Witness ==
    /\ Returned("_normalize_plays")
    /\ args.x = 9999999
    /\ RLt(Rat(8, 10), result)
    /\ result # normalize_plays(10000000)

-----------------------------------------------------------------------------
(* FinalRanker._calculate_engagement_quality called on its own: videos     *)
(* with every counter present or absent, without plays, with more likes    *)
(* than plays, and without the stats dict.                                 *)
QualityPlays == {Missing, 0, 1, 10, 1000, 1000000}
QualityLikes == {Missing, 0, 1, 100, 2000, 100000}
QualityComments == {Missing, 0, 10, 10000}
QualityShares == {Missing, 0, 5, 5000}

MkQualityVideo(p, l, c, s) ==
    LET st == MkStats(p, l, c, s)
    IN  IF DOMAIN st = {} THEN << >> ELSE [stats |-> st]

QualityArgs ==
    {[method |-> "_calculate_engagement_quality",
      video |-> MkQualityVideo(p, l, c, s)] :
        p \in QualityPlays, l \in QualityLikes, c \in QualityComments,
        s \in QualityShares}

InitQuality == HelperCall(QualityArgs)

CalculateEngagementQuality ==
    HelperReturn("_calculate_engagement_quality",
                 calculate_engagement_quality(args.video))

NextQuality == CalculateEngagementQuality

SpecQuality == InitQuality /\ [][NextQuality]_vars

(* C23: the engagement quality is 0.5 when the play count is 0 or absent,  *)
(* and otherwise min(1, 10 * (0.3*likes + 0.4*comments + 0.3*shares) /     *)
(* plays); for non-negative counters it lies in [0, 1].                    *)
C23_EngagementQualityFormula ==
    op = "return" =>
        LET plays == StatOf(args.video, "plays")
            likes == StatOf(args.video, "likes")
            comments == StatOf(args.video, "comments")
            shares == StatOf(args.video, "shares")
        IN  /\ plays = 0 => result = Half
            /\ plays # 0 =>
                   result = RMin(One, Rat(10 * (3 * likes + 4 * comments + 3 * shares),
                                          10 * plays))
            /\ IsUnit(result)

(* A call that returns the clamped value: more likes than plays.           *)
C23_Witness ==
    /\ op = "return"
    /\ StatOf(args.video, "plays") = 10
    /\ StatOf(args.video, "likes") = 2000
    /\ "comments" \notin DOMAIN args.video.stats
    /\ result = One

(* The videos with likes 10%, comments 1% and shares 0.5% of the plays.    *)
TypicalGoodEngagement(v) ==
    /\ StatOf(v, "plays") > 0
    /\ 10 * StatOf(v, "likes") = StatOf(v, "plays")
    /\ 100 * StatOf(v, "comments") = StatOf(v, "plays")
    /\ 200 * StatOf(v, "shares") = StatOf(v, "plays")

(* C24 as stated: a video with likes 10%, comments 1% and shares 0.5% of   *)
(* its plays gets an engagement quality of at least 0.9.                   *)
C24_TypicalNearOne ==
    (op = "return" /\ TypicalGoodEngagement(args.video)) =>
        RLe(Rat(9, 10), result)

(* C24: a video with likes 10%, comments 1% and shares 0.5% of its plays   *)
(* gets the engagement quality 10 * (0.03 + 0.004 + 0.0015) = 0.355.       *)
C24_TypicalValue ==
    (op = "return" /\ TypicalGoodEngagement(args.video)) =>
        result = Rat(355, 1000)

(* The call for plays 1000, likes 100, comments 10, shares 5.              *)
C24_Witness ==
    /\ op = "return"
    /\ StatOf(args.video, "plays") = 1000
    /\ StatOf(args.video, "likes") = 100
    /\ StatOf(args.video, "comments") = 10
    /\ StatOf(args.video, "shares") = 5
    /\ RLt(result, Half)

-----------------------------------------------------------------------------
(* FinalRanker._find_matched_tags called on its own.                       *)
MatchTag(name) == [tag |-> name, affinity |-> Half]

MatchNames == {S_dance, S_hip_hop, S_Cat, S_zz, S_x_}

(* User tag lists: every list of up to two tags, and longer lists with     *)
(* more than five matching tags, with a repeated tag, and with four        *)
(* matching tags.                                                          *)
MatchTagLists ==
    {[i \in DOMAIN q |-> MatchTag(q[i])] : q \in SeqsUpTo(MatchNames, 2)} \cup
    {[i \in 1..7 |-> MatchTag(IF i = 3 THEN S_zz ELSE IF i = 6 THEN S_Cat ELSE S_dance)],
     [i \in 1..6 |-> MatchTag(IF i % 2 = 0 THEN S_hip_hop ELSE S_dance)],
     [i \in 1..4 |-> MatchTag(IF i = 2 THEN S_zz ELSE IF i = 4 THEN S_hip_hop ELSE S_dance)],
     [i \in 1..11 |-> MatchTag(IF i = 11 THEN S_dance ELSE S_zz)]}

MatchVideos ==
    {[description |-> S_DanceFun, hashtags |-> <<S_Cat, S_hop>>,
      source_tags |-> <<S_zz, S_dance, S_zz, S_music>>],
     [description |-> S_DanceFun, source_tags |-> <<S_hip_hop, S_hip_hop, S_Cat>>],
     [hashtags |-> <<S_hop>>,
      source_tags |-> <<S_music, S_zz, S_Cat, S_dance, S_hop, S_Pop>>],
     [description |-> S_my_cat, hashtags |-> <<S_Dance>>],
     << >>}

MatchedArgs ==
    [method : {"_find_matched_tags"}, video : MatchVideos, user_tags : MatchTagLists]

InitMatched == HelperCall(MatchedArgs)

FindMatchedTags ==
    HelperReturn("_find_matched_tags", find_matched_tags(args.video, args.user_tags))

NextMatched == FindMatchedTags

SpecMatched == InitMatched /\ [][NextMatched]_vars

(* The lowercased description and hashtags of the video, joined by spaces. *)
MatchText(v) ==
    Lower(Get(v, "description", << >>) \o Space \o Join(Space, Get(v, "hashtags", << >>)))

(* The tag's lowercased name, or one of its underscore-separated           *)
(* components, occurs in the text.                                         *)
TagOccurs(name, text) ==
    \/ Contains(Lower(name), text)
    \/ \E j \in DOMAIN Split(Lower(name), Underscore) :
           Contains(Split(Lower(name), Underscore)[j], text)

(* The list without the entries at the positions outside keep.             *)
RECURSIVE KeepAt(_, _, _)
KeepAt(list, keep, i) ==
    IF i > Len(list) THEN << >>
    ELSE (IF i \in keep THEN <<list[i]>> ELSE << >>) \o KeepAt(list, keep, i + 1)

MatchingNames(v, tags) ==
    LET names == [i \in DOMAIN tags |-> tags[i].tag]
    IN  KeepAt(names, {i \in DOMAIN tags : TagOccurs(names[i], MatchText(v))}, 1)

NewSourceTags(v, tags) ==
    LET source_tags == Get(v, "source_tags", << >>)
        matching == MatchingNames(v, tags)
    IN  KeepAt(source_tags,
               {i \in DOMAIN source_tags :
                    /\ ~InList(source_tags[i], matching)
                    /\ \A j \in 1..(i - 1) : source_tags[j] # source_tags[i]},
               1)

(* C25: matched_tags has at most 5 entries: the first 5 of the user tags,  *)
(* in list order, whose lowercased name or one of its underscore           *)
(* components occurs in the video's lowercased description and hashtags,   *)
(* followed by the source tags, in order, not yet in the sequence.         *)
C25_MatchedTags ==
    op = "return" =>
        /\ Len(result) <= 5
        /\ result = Take(MatchingNames(args.video, args.user_tags)
                            \o NewSourceTags(args.video, args.user_tags), 5)

(* Four user tags of which three match, and source tags of which one is    *)
(* already matched, two are new and one repeats: five entries are         *)
(* returned.                                                               *)
C25_Witness ==
    /\ op = "return"
    /\ Len(args.user_tags) = 4
    /\ Len(MatchingNames(args.video, args.user_tags)) = 3
    /\ Get(args.video, "source_tags", << >>) = <<S_zz, S_dance, S_zz, S_music>>
    /\ result = <<S_dance, S_dance, S_hip_hop, S_zz, S_music>>

-----------------------------------------------------------------------------
(* The sum of f[1], ..., f[n].                                             *)
RECURSIVE SumTo(_, _)
SumTo(f, n) == IF n = 0 THEN Zero ELSE RAdd(SumTo(f, n - 1), f[n])

(* The positions of the first n tags of the call.                          *)
FirstTags(n) == 1..Min(n, Len(user_tags))

CallVideoText == Lower(create_video_text(video))

(* What the tag at position i contributes to the tag match.                *)
Contribution(i) ==
    LET name == Lower(user_tags[i].tag)
        keywords == Split(name, Underscore)
    IN  IF Contains(name, CallVideoText) THEN user_tags[i].affinity
        ELSE IF \E j \in DOMAIN keywords : Contains(keywords[j], CallVideoText)
            THEN RMul(Half, user_tags[i].affinity)
        ELSE Zero

(* C26: the tag match looks at the first 10 user tags only; a tag gives    *)
(* its full affinity when its lowercased name occurs in the lowercased     *)
(* video text, half of it when only an underscore component occurs, and    *)
(* nothing otherwise; the sum is divided by the sum of the affinities of   *)
(* those tags.  The result lies in [0, 1] and is positive when one of      *)
(* those tags has a positive affinity and matches.                         *)
C26_TagMatch ==
    op = "return" =>
        LET n == Min(10, Len(user_tags))
            awarded == SumTo([i \in FirstTags(10) |-> Contribution(i)], n)
            possible == SumTo([i \in FirstTags(10) |-> user_tags[i].affinity], n)
        IN  /\ RLt(Zero, possible) => parts.tag_match_score = RDiv(awarded, possible)
            /\ IsUnit(parts.tag_match_score)
            /\ (\E i \in FirstTags(10) :
                    /\ RLt(Zero, user_tags[i].affinity)
                    /\ TagOccurs(user_tags[i].tag, CallVideoText))
                   => RLt(Zero, parts.tag_match_score)

(* Eleven tags, the eleventh of which occurs verbatim in the video text    *)
(* and is not counted: only the half affinity of the sixth is awarded,     *)
(* 0.25 of 1.4.                                                            *)
C26_Witness ==
    /\ op = "return"
    /\ Len(user_tags) = 11
    /\ user_tags[11].tag = S_dance
    /\ Contains(S_dance, CallVideoText)
    /\ parts.tag_match_score = Rat(5, 28)

(* The positions among the first five tags whose tag is a source tag of    *)
(* the video.                                                              *)
SourcePositions ==
    {i \in FirstTags(5) : InList(user_tags[i].tag, Get(video, "source_tags", << >>))}

(* C27: the source-tag boost is 0.2 times the affinity of the first of     *)
(* the first 5 user tags that is an element of the video's source_tags,    *)
(* whatever the affinities of later matching tags, and 0 when there is     *)
(* none.                                                                   *)
C27_SourceTagBoost ==
    op = "return" =>
        /\ SourcePositions = {} => parts.source_tag_boost = Zero
        /\ SourcePositions # {} =>
               \E i \in SourcePositions :
                   /\ \A j \in SourcePositions : i <= j
                   /\ parts.source_tag_boost = RMul(Rat(2, 10), user_tags[i].affinity)

(* Two tags that are both source tags of the video, the second with the    *)
(* higher affinity: the boost is that of the first.                        *)
C27_Witness ==
    /\ op = "return"
    /\ SourcePositions = {1, 2}
    /\ RLt(user_tags[1].affinity, user_tags[2].affinity)
    /\ parts.source_tag_boost = RMul(Rat(2, 10), user_tags[1].affinity)
    /\ RLt(Zero, parts.source_tag_boost)

-----------------------------------------------------------------------------
(* RelevanceScorer._create_user_embedding called on its own.  parts keeps  *)
(* the text handed to the embedding generator; the provider may be absent  *)
(* or fail.                                                                *)
UserTextArgs ==
    [method : {"_create_user_embedding"},
     user_tags : SeqsUpTo(TagPool, MaxTagsLen) \cup LongTagLists]

InitUserText == HelperCall(UserTextArgs)

CreateUserEmbedding ==
    /\ op = "call"
    /\ args.method = "_create_user_embedding"
    /\ op' = "return"
    /\ IF args.user_tags = << >>
           THEN parts' = << >> /\ result' = None
           ELSE /\ parts' = [user_text |-> create_user_text(args.user_tags)]
                /\ \E client, fails \in BOOLEAN :
                       result' = generate(create_user_text(args.user_tags), client, fails)
    /\ UNCHANGED <<video, user_tags, embedding, tag_mappings, user_data,
                   content, scored_tags, videos, virality_scores,
                   relevance_scores, presorted, recommendations, args>>
    /\ UNCHANGED batch_vars
    /\ UNCHANGED api_vars

NextUserText == CreateUserEmbedding

SpecUserText == InitUserText /\ [][NextUserText]_vars

(* f[1] \o ... \o f[n]                                                     *)
RECURSIVE ConcatTo(_, _)
ConcatTo(f, n) == IF n = 0 THEN << >> ELSE ConcatTo(f, n - 1) \o f[n]

(* The tag followed by its reason when it has one.                         *)
TagAndReason(tag) ==
    IF "reason" \in DOMAIN tag /\ tag.reason # << >> THEN <<tag.tag, tag.reason>>
    ELSE <<tag.tag>>

(* The text in which the tag at position i of the first ten is repeated    *)
(* times[i] times.                                                         *)
TextWithRepetitions(tags, times) ==
    LET n == Min(10, Len(tags))
    IN  Join(Space, ConcatTo([i \in 1..n |-> Repeat(TagAndReason(tags[i]), times[i])], n))

Truncated(a) == IF 3 * a[1] < a[2] THEN 1 ELSE (3 * a[1]) \div a[2]

Rounded(a) == IF RoundOf(Rat(3 * a[1], a[2])) < 1 THEN 1 ELSE RoundOf(Rat(3 * a[1], a[2]))

BuiltText == op = "return" /\ args.user_tags # << >>

(* C28 as stated: each of the first 10 tags is repeated                    *)
(* max(1, round(affinity * 3)) times, each repetition followed by the      *)
(* reason when there is one: three times for affinity 0.9, twice for 0.5.  *)
C28_RepeatedRounded ==
    BuiltText =>
        /\ Rounded(Rat(9, 10)) = 3 /\ Rounded(Half) = 2
        /\ parts.user_text =
               TextWithRepetitions(args.user_tags,
                   [i \in 1..Min(10, Len(args.user_tags)) |->
                        Rounded(args.user_tags[i].affinity)])

(* C28: each of the first 10 tags is repeated max(1, int(affinity * 3))    *)
(* times, the product truncated to a whole number, each repetition         *)
(* followed by the reason when there is one: twice for affinity 0.9, once  *)
(* for 0.5.                                                                *)
C28_RepeatedTruncated ==
    BuiltText =>
        /\ Truncated(Rat(9, 10)) = 2 /\ Truncated(Half) = 1
        /\ parts.user_text =
               TextWithRepetitions(args.user_tags,
                   [i \in 1..Min(10, Len(args.user_tags)) |->
                        Truncated(args.user_tags[i].affinity)])

(* A tag of affinity 0.9 with a reason and a tag of affinity 0.5 without:  *)
(* "dance fan dance fan hip_hop".                                          *)
C28_Witness ==
    /\ BuiltText
    /\ Len(args.user_tags) = 2
    /\ args.user_tags[1].affinity = Rat(9, 10)
    /\ args.user_tags[2].affinity = Half
    /\ parts.user_text =
           Join(Space, <<S_dance, S_reason, S_dance, S_reason, S_hip_hop>>)

-----------------------------------------------------------------------------
(* likes + 2 * comments + 3 * shares of an item, absent counters as 0.     *)
Engagement(item) ==
    StatOf(item, "likes") + 2 * StatOf(item, "comments") + 3 * StatOf(item, "shares")

InDescription(tag, item) == Contains(Lower(tag), Lower(Get(item, "description", << >>)))

InsideHashtag(tag, item) ==
    \E i \in DOMAIN Get(item, "hashtags", << >>) :
        Contains(Lower(tag), Lower(item.hashtags[i]))

IsHashtag(tag, item) ==
    \E i \in DOMAIN Get(item, "hashtags", << >>) : Lower(item.hashtags[i]) = Lower(tag)

(* The engagement of the items at the given positions, added up.           *)
RECURSIVE EngagementAt(_, _)
EngagementAt(items, at) ==
    IF at = {} THEN 0
    ELSE LET i == CHOOSE k \in at : TRUE
         IN  Engagement(items[i]) + EngagementAt(items, at \ {i})

(* min(0.2, (1.0 * P + 0.8 * R + 0.6 * L) / 100)                           *)
BoostOf(P, R_, L) == RMin(Rat(2, 10), Rat(10 * P + 8 * R_ + 6 * L, 1000))

(* C29 as stated: the engagement boost of a tag is                         *)
(* min(0.2, (1.0*P + 0.8*R + 0.6*L) / 100), P, R and L being the sums of   *)
(* likes + 2*comments + 3*shares over the matching posts, reposts and      *)
(* liked posts, where an item matches when the lowercased tag is a         *)
(* substring of its lowercased description or of one of its lowercased     *)
(* hashtags.                                                               *)
C29_BoostSubstringOfHashtag ==
    op = "return" =>
        \A e \in DOMAIN scored_tags :
            LET tag == scored_tags[e].tag
                Matching(items) ==
                    {i \in DOMAIN items :
                         InDescription(tag, items[i]) \/ InsideHashtag(tag, items[i])}
            IN  scored_tags[e].engagement_boost =
                    BoostOf(EngagementAt(content.posts, Matching(content.posts)),
                            EngagementAt(content.reposts, Matching(content.reposts)),
                            EngagementAt(content.liked_posts,
                                         Matching(content.liked_posts)))

(* C29: the same boost, where an item matches when the lowercased tag is a *)
(* substring of its lowercased description or is equal to one of its       *)
(* lowercased hashtags.                                                    *)
C29_BoostEqualToHashtag ==
    op = "return" =>
        \A e \in DOMAIN scored_tags :
            LET tag == scored_tags[e].tag
                Matching(items) ==
                    {i \in DOMAIN items :
                         InDescription(tag, items[i]) \/ IsHashtag(tag, items[i])}
            IN  scored_tags[e].engagement_boost =
                    BoostOf(EngagementAt(content.posts, Matching(content.posts)),
                            EngagementAt(content.reposts, Matching(content.reposts)),
                            EngagementAt(content.liked_posts,
                                         Matching(content.liked_posts)))

(* A tag that lies inside a hashtag of the post ("dance" in "dancer") and  *)
(* is a hashtag of the liked post: only the liked post counts,             *)
(* 0.6 * 8 / 100.                                                          *)
C29_Witness ==
    /\ op = "return"
    /\ Len(content.posts) = 1
    /\ InsideHashtag(S_dance, content.posts[1])
    /\ ~IsHashtag(S_dance, content.posts[1])
    /\ ~InDescription(S_dance, content.posts[1])
    /\ Engagement(content.posts[1]) > 0
    /\ content.reposts = << >>
    /\ Len(content.liked_posts) = 1
    /\ \E e \in DOMAIN scored_tags :
           /\ scored_tags[e].tag = S_dance
           /\ scored_tags[e].engagement_boost = Rat(48, 1000)

-----------------------------------------------------------------------------
(* The four paging methods of TikTokAPIClient: search_videos (lines        *)
(* 185-219) and the definitions of get_user_posts, get_user_reposts and    *)
(* get_user_liked_posts that the class ends up with (lines 273-374).       *)
(* _make_request is one step here: it answers from the cache or from the   *)
(* API.  The locals are those of NoSearch and the method's name; pages     *)
(* holds the answers of the requests made so far.                          *)
PagingMethods ==
    {"search_videos", "get_user_posts", "get_user_reposts", "get_user_liked_posts"}

(* The largest page a method asks for: min(20 | 35 | 30, count - len(...)) *)
page_cap(method) ==
    IF method = "search_videos" THEN 20
    ELSE IF method = "get_user_posts" THEN 35
    ELSE 30

(* str(n) and int(c) for the cursors; BadCursor is a cursor that int()     *)
(* does not accept.                                                        *)
CursorStrings == <<"0", "1", "2", "3", "4", "5", "6", "7", "8", "9">>
BadCursor == "x"
str_of(n) == CursorStrings[n + 1]
int_of(c) == CHOOSE n \in 0..9 : CursorStrings[n + 1] = c

(* The cache key of a request of a user method.                            *)
user_cache_key(s) ==
    [endpoint |-> s.method, cursor |-> s.cursor,
     count |-> Min(page_cap(s.method), s.count - Len(s.videos))]

paging_key(s) == IF s.method = "search_videos" THEN cache_key(s) ELSE user_cache_key(s)

(* The dict the item list is read from: response.data.get("data",          *)
(* response.data) in get_user_posts, response.data["data"] when present    *)
(* in get_user_liked_posts, response.data itself in get_user_reposts.      *)
user_data_of(method, response_data) ==
    IF method = "get_user_reposts" THEN response_data
    ELSE IF "data" \in DOMAIN response_data THEN response_data.data
    ELSE response_data

(* The loop goes on to the cursor update (an item list with hasMore).      *)
user_reaches_cursor(s, response) ==
    /\ response.status_code = 200
    /\ response.data # << >>
    /\ Get(user_data_of(s.method, response.data), "itemList", << >>) # << >>
    /\ Get(user_data_of(s.method, response.data), "hasMore", FALSE)

(* The default of data.get("cursor", str(int(cursor) + len(item_list))) is *)
(* computed before the lookup: int(cursor) raises for a cursor that is no  *)
(* number.                                                                 *)
user_step_raises(s, response) ==
    user_reaches_cursor(s, response) /\ s.cursor = BadCursor

(* The loop body of a user method without the break on an empty item list. *)
user_page_step_no_break(s, response) ==
    LET seen == [s EXCEPT !.pages = Append(@, response)]
        data == user_data_of(s.method, response.data)
        item_list == Get(data, "itemList", << >>)
        extended == [seen EXCEPT !.videos = @ \o item_list]
        next ==
            IF response.status_code # 200 \/ response.data = << >>
                THEN [seen EXCEPT !.running = FALSE]
            ELSE IF ~Get(data, "hasMore", FALSE) THEN [extended EXCEPT !.running = FALSE]
            ELSE [extended EXCEPT
                     !.cursor = Get(data, "cursor", str_of(int_of(@) + Len(item_list))),
                     !.running = Len(extended.videos) < s.count]
    IN  IF next.running THEN next
        ELSE [next EXCEPT !.returned = Take(next.videos, next.count)]

(* The loop body of a user method for one response, the loop test, and     *)
(* the return of the first count items when the loop ends.                 *)
user_page_step(s, response) ==
    LET seen == [s EXCEPT !.pages = Append(@, response)]
        data == user_data_of(s.method, response.data)
        item_list == Get(data, "itemList", << >>)
        extended == [seen EXCEPT !.videos = @ \o item_list]
        next ==
            IF response.status_code # 200 \/ response.data = << >>
                THEN [seen EXCEPT !.running = FALSE]
            ELSE IF item_list = << >> THEN [seen EXCEPT !.running = FALSE]
            ELSE IF ~Get(data, "hasMore", FALSE) THEN [extended EXCEPT !.running = FALSE]
            ELSE IF s.cursor = BadCursor THEN [extended EXCEPT !.running = FALSE]
            ELSE [extended EXCEPT
                     !.cursor = Get(data, "cursor", str_of(int_of(@) + Len(item_list))),
                     !.running = Len(extended.videos) < s.count]
    IN  IF next.running \/ user_step_raises(s, response) THEN next
        ELSE [next EXCEPT !.returned = Take(next.videos, next.count)]

page_step(s, response) ==
    IF s.method = "search_videos" THEN handle_response(s, response)
    ELSE user_page_step(s, response)

step_raises(s, response) ==
    s.method # "search_videos" /\ user_step_raises(s, response)

(* The page that reports more results and answers with the cursor it was   *)
(* asked with.                                                             *)
StuckPage(s) ==
    IF s.method = "search_videos"
        THEN [status_code |-> 200, json |-> [item_list |-> <<"a">>, has_more |-> TRUE]]
        ELSE [status_code |-> 200,
              json |-> [itemList |-> <<"a">>, hasMore |-> TRUE, cursor |-> s.cursor]]

UserPages ==
    {[status_code |-> 200,
      json |-> [itemList |-> <<"a", "b">>, hasMore |-> TRUE, cursor |-> "2"]],
     [status_code |-> 200, json |-> [itemList |-> <<"c">>, hasMore |-> TRUE]],
     [status_code |-> 200, json |-> [itemList |-> <<"d">>, hasMore |-> FALSE]],
     [status_code |-> 200, json |-> [itemList |-> << >>, hasMore |-> TRUE]],
     [status_code |-> 200,
      json |-> [data |-> [itemList |-> <<"e">>, hasMore |-> TRUE,
                          cursor |-> BadCursor]]],
     [status_code |-> 200, json |-> << >>],
     [status_code |-> 404, json |-> << >>]}

MaxSmallCount == 3

(* A count above the page cap, for which successive requests have the same *)
(* parameters.                                                             *)
BigCount(method) == page_cap(method) + 2

(* What the API may answer: anything for a small count, the stuck page     *)
(* throughout for a big one.                                               *)
PagesFor(s) ==
    IF s.count > MaxSmallCount THEN {StuckPage(s)}
    ELSE {StuckPage(s)} \cup (IF s.method = "search_videos" THEN Pages ELSE UserPages)

(* The request counter stops the model here, above every count.            *)
MaxRequests == 40

InitPaging ==
    /\ op = "idle"
    /\ \E enable_cache \in BOOLEAN :
           api_client = [last_request_time |-> 0, cache_enabled |-> enable_cache,
                         cache |-> << >>]
    /\ clock = StartTime
    /\ search = NoSearch
    /\ request_log = << >>
    /\ video = << >>
    /\ user_tags = << >>
    /\ embedding = << >>
    /\ result = Zero
    /\ parts = << >>
    /\ tag_mappings = << >>
    /\ user_data = << >>
    /\ content = << >>
    /\ scored_tags = << >>
    /\ videos = << >>
    /\ virality_scores = << >>
    /\ relevance_scores = << >>
    /\ presorted = << >>
    /\ recommendations = << >>
    /\ BatchIdle
    /\ args = << >>

(* A paging method is called: its locals are set and the loop is tested.   *)
PagingCall ==
    /\ op = "idle"
    /\ \E method \in PagingMethods :
       \E count \in (0..MaxSmallCount) \cup {BigCount(method)} :
           /\ search' = [method |-> method, number |-> 1, keyword |-> "dance",
                         count |-> count, videos |-> << >>,
                         cursor |-> "0",
                         search_id |-> "0", pages |-> << >>, attempt |-> 1,
                         running |-> 0 < count, returned |-> << >>]
           /\ op' = IF 0 < count THEN "make_request" ELSE "returned"
    /\ UNCHANGED <<api_client, clock, request_log>>
    /\ UNCHANGED scoring_vars
    /\ UNCHANGED batch_vars

(* The rest of the iteration once _make_request has returned.              *)
PagingAnswer(response) ==
    /\ search' = page_step(search, response)
    /\ op' = IF step_raises(search, response) THEN "raised"
             ELSE IF search'.running THEN "make_request"
             ELSE "returned"

(* _make_request answers from the cache.                                   *)
PagingCached ==
    /\ op = "make_request"
    /\ Len(search.pages) < MaxRequests
    /\ cache_hit(api_client, paging_key(search))
    /\ PagingAnswer([status_code |-> 200, data |-> api_client.cache[paging_key(search)]])
    /\ UNCHANGED <<api_client, clock, request_log>>
    /\ UNCHANGED scoring_vars
    /\ UNCHANGED batch_vars

(* _make_request asks the API, which answers.                              *)
PagingRequest ==
    /\ op = "make_request"
    /\ Len(search.pages) < MaxRequests
    /\ ~cache_hit(api_client, paging_key(search))
    /\ \E page \in PagesFor(search) :
           LET ok == page.status_code = 200
           IN  /\ api_client' =
                      IF ok /\ api_client.cache_enabled
                          THEN [api_client EXCEPT
                                   !.cache = store(@, paging_key(search), page.json)]
                          ELSE api_client
               /\ PagingAnswer([status_code |-> page.status_code,
                                data |-> IF ok THEN page.json ELSE << >>])
    /\ UNCHANGED <<clock, request_log>>
    /\ UNCHANGED scoring_vars
    /\ UNCHANGED batch_vars

NextPaging == PagingCall \/ PagingCached \/ PagingRequest

SpecPaging == InitPaging /\ [][NextPaging]_vars

(* The method runs on: the thread is not stopped, and every request        *)
(* returns.                                                                *)
SpecPagingFair == SpecPaging /\ WF_vars(NextPaging)

(* C30: every paging loop ends, and makes at most count requests, whatever *)
(* the API answers (more results reported forever, the cursor never        *)
(* advanced) and also when the same page is answered from the cache: every *)
(* iteration adds at least one item or leaves the loop.                    *)
C30_PagingTerminates ==
    /\ [](Len(search.pages) <= search.count)
    /\ [][op = "make_request" =>
              \/ Len(search'.videos) > Len(search.videos)
              \/ op' \in {"returned", "raised"}]_vars
    /\ <>(op \in {"returned", "raised"})

(* A call with a count above the page cap and the cache enabled that has   *)
(* returned after exactly count requests, all answered with the same page  *)
(* and the same cursor, the second from the cache.                         *)
C30_Witness ==
    /\ op = "returned"
    /\ search.count = BigCount(search.method)
    /\ Len(search.pages) = search.count
    /\ api_client.cache_enabled
    /\ DOMAIN api_client.cache # {}
    /\ \A i \in DOMAIN search.pages : search.pages[i] = search.pages[1]
    /\ Len(search.returned) = search.count

=============================================================================
